---- MODULE Spec2Model ----
(***************************************************************************)
(* A model of the conversational RAG pipeline of the repository:           *)
(*   - ConversationHistory (part2_conversational_ai/02_context_chat.py)    *)
(*   - the conversational chat loop of 02_context_chat.py                  *)
(*   - the controlled-response chat loop of 03_controlled_responses.py     *)
(*   - hybrid_search (part1_smart_search/05_hybrid_search.py)              *)
(* Text is modelled by TLA+ strings; TLC evaluates Len, Head, Tail, SubSeq *)
(* and \o on them, so str.lower, str.strip, the "in" substring test and    *)
(* the f-string formatting of the source are computed character by         *)
(* character.                                                              *)
(***************************************************************************)
EXTENDS Integers, Sequences, FiniteSets, TLC

VARIABLES
    messages,        \* ConversationHistory.messages
    max_messages,    \* ConversationHistory.max_messages
    nextSeq,         \* creation index given to the next appended message
    program,         \* what runs: "history", "chat", "controlled", "format"
                     \* or "fusion"
    pc,              \* position of the chat loop
    question,        \* local of chat_loop
    search_query_text, \* local of search_products
    documents,       \* local of chat_loop
    context,         \* local of chat_loop
    response,        \* local of chat_loop
    followed_rules,  \* result['followed_rules'] of 03_controlled_responses.py
    shown,           \* the answer printed after "Bot:" in the last iteration
    calls,           \* collaborator calls started in the current iteration
    lastOutcome,     \* how the last iteration of the loop ended
    failedStage,     \* the call that raised or was interrupted, "" when none
    histAtTurnStart, \* messages when the current utterance was read
    reformulation,   \* the text the reformulation request returned
    hits,            \* results['hits']['hits'] of the search that returned last
    attempts,        \* times the collaborator call in flight has been made
    request,         \* messages of the chat completion request sent last
    answer,          \* content of the completion the generation request returned
    rank_constant,   \* rank_constant of the rrf clause of hybrid_search
    lexical,         \* documents ranked by the text clause of hybrid_search
    semantic,        \* documents ranked by the knn clause of hybrid_search
    fused,           \* documents ranked by reciprocal rank fusion
    returned,        \* what retrieve_context or semantic_search returned
    max_retries,     \* config.MAX_RETRIES of the run
    retry_delay,     \* config.RETRY_DELAY of the run
    batch_size,      \* config.EMBEDDING_BATCH_SIZE of the run
    batch_start,     \* i of the batch loop of index_documents_with_embeddings
    attempt,         \* attempt of the retry loop
    all_embeddings,  \* all_embeddings of index_documents_with_embeddings
    waits,           \* the arguments of the time.sleep calls made for the batch
    actions,         \* actions handed to bulk
    twin             \* messages of a second ConversationHistory, created anew

vars == <<messages, max_messages, nextSeq, program, pc, question,
          search_query_text, documents, context, response, followed_rules,
          shown, calls, lastOutcome, failedStage, histAtTurnStart, reformulation,
          hits, attempts, request, answer, rank_constant, lexical, semantic,
          fused, returned, max_retries, retry_delay, batch_size, batch_start,
          attempt, all_embeddings, waits, actions, twin>>

loopVars == <<pc, question, search_query_text, documents, context, response,
              followed_rules, shown, calls, lastOutcome, failedStage,
              histAtTurnStart, reformulation, hits, attempts, request, answer>>

fusionVars == <<rank_constant, lexical, semantic, fused>>

scriptVars == <<returned, max_retries, retry_delay, batch_size, batch_start,
                attempt, all_embeddings, waits, actions, twin>>

----------------------------------------------------------------------------
(* Bounds of the model *)

\* max_messages ranges over 1..MaxHistory
MaxHistory == 3
\* at most MaxCalls messages are appended in one behaviour
MaxCalls == 5

----------------------------------------------------------------------------
(* Python built-ins used by the source *)

Min(a, b) == IF a < b THEN a ELSE b
Max(a, b) == IF a > b THEN a ELSE b

\* seq[start:] of Python, start possibly negative
PySliceFrom(seq, start) ==
    LET n == Len(seq)
        begin == IF start < 0 THEN Max(n + start, 0) ELSE Min(start, n)
    IN  SubSeq(seq, begin + 1, n)

\* seq[:stop] of Python for stop >= 0
PySliceTo(seq, stop) == SubSeq(seq, 1, Min(stop, Len(seq)))

UpperLetters == "ABCDEFGHIJKLMNOPQRSTUVWXYZ"
LowerLetters == "abcdefghijklmnopqrstuvwxyz"

LowerChar(c) ==
    IF \E i \in 1..26 : SubSeq(UpperLetters, i, i) = c
    THEN LET i == CHOOSE i \in 1..26 : SubSeq(UpperLetters, i, i) = c
         IN  SubSeq(LowerLetters, i, i)
    ELSE c

RECURSIVE Lower(_)
\* str.lower()
Lower(s) == IF s = "" THEN "" ELSE LowerChar(Head(s)) \o Lower(Tail(s))

IsSpace(c) == c \in {" ", "\n", "\t", "\r"}

RECURSIVE LStrip(_)
LStrip(s) == IF s # "" /\ IsSpace(Head(s)) THEN LStrip(Tail(s)) ELSE s

RECURSIVE RStrip(_)
RStrip(s) ==
    IF s # "" /\ IsSpace(SubSeq(s, Len(s), Len(s)))
    THEN RStrip(SubSeq(s, 1, Len(s) - 1))
    ELSE s

\* str.strip()
Strip(s) == RStrip(LStrip(s))

\* sub in s
Contains(s, sub) ==
    \E i \in 1..(Len(s) - Len(sub) + 1) : SubSeq(s, i, i + Len(sub) - 1) = sub

\* len(s.split()): the number of maximal runs of non-space characters
WordCount(s) ==
    Cardinality({i \in 1..Len(s) :
        /\ ~IsSpace(SubSeq(s, i, i))
        /\ (i = 1 \/ IsSpace(SubSeq(s, i - 1, i - 1)))})

RECURSIVE Join(_, _)
\* sep.join(parts)
Join(sep, parts) ==
    IF parts = <<>> THEN ""
    ELSE IF Len(parts) = 1 THEN parts[1]
    ELSE parts[1] \o sep \o Join(sep, Tail(parts))

----------------------------------------------------------------------------
(* ConversationHistory *)

Roles == {"user", "assistant", "system"}

\* {"role": role, "content": content}; seq is the creation index of the dict
Message(role, content, seq) == [role |-> role, content |-> content, seq |-> seq]

IsSystem(m) == m.role = "system"
NotSystem(m) == m.role # "system"

\* the trimming of add_message as a plausible slip would write it:
\* keep the last max_messages messages whatever their role
AddMessage_TrimByAge(msgs, maxm, role, content, seq) ==
    LET appended == Append(msgs, Message(role, content, seq))
    IN  IF Len(appended) > maxm
        THEN PySliceFrom(appended, -maxm)
        ELSE appended

\* ConversationHistory.add_message: the value of self.messages after the call
AddMessage(msgs, maxm, role, content, seq) ==
    LET appended == Append(msgs, Message(role, content, seq))
    IN  IF Len(appended) > maxm
        THEN LET system_messages == SelectSeq(appended, IsSystem)
                 other_messages == SelectSeq(appended, NotSystem)
             IN  system_messages \o
                 PySliceFrom(other_messages, -(maxm - Len(system_messages)))
        ELSE appended

----------------------------------------------------------------------------
(* The ConversationHistory class used on its own: any caller, any role *)

HistoryContents == {"hello"}

\* config.RRF_RANK_CONSTANT
RRF_RANK_CONSTANT == 60

\* config.MAX_RETRIES
MAX_RETRIES == 3

\* config.RETRY_DELAY
RETRY_DELAY == 1

\* config.EMBEDDING_BATCH_SIZE
EMBEDDING_BATCH_SIZE == 100

\* none of the one-shot scripts runs
ScriptsIdle ==
    /\ returned = <<>>
    /\ max_retries = MAX_RETRIES
    /\ retry_delay = RETRY_DELAY
    /\ batch_size = EMBEDDING_BATCH_SIZE
    /\ batch_start = 0
    /\ attempt = 0
    /\ all_embeddings = <<>>
    /\ waits = <<>>
    /\ actions = <<>>
    /\ twin = <<>>

\* no hybrid search has been made
FusionIdle ==
    /\ rank_constant = RRF_RANK_CONSTANT
    /\ lexical = <<>>
    /\ semantic = <<>>
    /\ fused = <<>>

LoopIdle ==
    /\ pc = "none"
    /\ question = ""
    /\ search_query_text = ""
    /\ documents = <<>>
    /\ context = ""
    /\ response = ""
    /\ followed_rules = <<>>
    /\ shown = ""
    /\ calls = {}
    /\ lastOutcome = "none"
    /\ failedStage = ""
    /\ histAtTurnStart = <<>>
    /\ reformulation = ""
    /\ hits = <<>>
    /\ attempts = 0
    /\ request = <<>>
    /\ answer = ""
    /\ FusionIdle
    /\ ScriptsIdle

\* ConversationHistory.__init__
InitHistory ==
    /\ messages = <<>>
    /\ max_messages \in 1..MaxHistory
    /\ nextSeq = 1
    /\ program = "history"
    /\ LoopIdle

\* history.add_message(role, content)
HistoryAdd ==
    /\ program = "history"
    /\ nextSeq <= MaxCalls
    /\ \E role \in Roles, content \in HistoryContents :
          messages' = AddMessage(messages, max_messages, role, content, nextSeq)
    /\ nextSeq' = nextSeq + 1
    /\ UNCHANGED <<max_messages, program, loopVars, fusionVars, scriptVars>>

\* history.clear()
HistoryClear ==
    /\ program = "history"
    /\ messages' = <<>>
    /\ UNCHANGED <<max_messages, nextSeq, program, loopVars, fusionVars, scriptVars>>

NextHistory == HistoryAdd \/ HistoryClear

SpecHistory == InitHistory /\ [][NextHistory]_vars

----------------------------------------------------------------------------
(* A ConversationHistory that is cleared after some use, next to one created *)
(* anew with the same max_messages: after the clear() both get the same      *)
(* add_message calls. pc is "none" before the clear() and "cleared" after.   *)

\* clear() if it kept the system messages
ClearedMessages_KeepSystem(msgs) == SelectSeq(msgs, IsSystem)

\* lines 48-50: self.messages after clear()
ClearedMessages(msgs) == <<>>

InitTwin ==
    /\ messages = <<>>
    /\ max_messages \in 1..MaxHistory
    /\ nextSeq = 1
    /\ program = "twin"
    /\ LoopIdle

\* history.add_message(role, content) before the clear()
EarlierAdd ==
    /\ program = "twin" /\ pc = "none"
    /\ nextSeq <= MaxCalls
    /\ \E role \in Roles, content \in HistoryContents :
          messages' = AddMessage(messages, max_messages, role, content, nextSeq)
    /\ nextSeq' = nextSeq + 1
    /\ UNCHANGED <<max_messages, program, loopVars, fusionVars, scriptVars>>

\* history.clear(), and ConversationHistory(max_messages) for the other one
TwinClear ==
    /\ program = "twin" /\ pc = "none"
    /\ messages' = ClearedMessages(messages)
    /\ twin' = <<>>
    /\ pc' = "cleared"
    /\ UNCHANGED <<max_messages, nextSeq, program, question, search_query_text,
                   documents, context, response, followed_rules, shown, calls,
                   lastOutcome, failedStage, histAtTurnStart, reformulation,
                   hits, attempts, request, answer, fusionVars, returned,
                   max_retries, retry_delay, batch_size, batch_start, attempt,
                   all_embeddings, waits, actions>>

\* the same add_message(role, content) on both
TwinAdd ==
    /\ program = "twin" /\ pc = "cleared"
    /\ nextSeq <= MaxCalls
    /\ \E role \in Roles, content \in HistoryContents :
          /\ messages' = AddMessage(messages, max_messages, role, content, nextSeq)
          /\ twin' = AddMessage(twin, max_messages, role, content, nextSeq)
    /\ nextSeq' = nextSeq + 1
    /\ UNCHANGED <<max_messages, program, loopVars, fusionVars, returned,
                   max_retries, retry_delay, batch_size, batch_start, attempt,
                   all_embeddings, waits, actions>>

NextTwin == EarlierAdd \/ TwinClear \/ TwinAdd

SpecTwin == InitTwin /\ [][NextTwin]_vars

----------------------------------------------------------------------------
(* Documents of the index and the context assemblers *)

\* config.RAG_TOP_K
RAG_TOP_K == 3

\* A document is the _source of a hit: a dict whose keys may be missing.
\* price is kept in cents, a rating in tenths; specifications is the ordered
\* dict as a sequence of <<key, value>> pairs.
Laptop ==
    [name |-> "Dell XPS 15", category |-> "Laptops", price |-> 189900,
     description |-> "15-inch laptop for video editing",
     specifications |-> << <<"cpu", "i7">>, <<"ram", "32GB">>,
                           <<"gpu", "RTX 4050">>, <<"storage", "1TB">>,
                           <<"screen", "15.6in">>, <<"weight", "1.9kg">> >>,
     features |-> <<"Backlit keyboard", "Thunderbolt 4">>,
     reviews |-> [rating |-> 45, count |-> 128, summary |-> "Fast and quiet"]]

Monitor ==
    [name |-> "LG UltraFine", category |-> "Monitors", price |-> 34950,
     description |-> "27-inch 4K monitor",
     specifications |-> <<>>,
     reviews |-> [rating |-> 40]]

\* a document without name and price
Cable == [category |-> "Accessories", description |-> "USB-C cable"]

Catalog == {Laptop, Monitor, Cable}

\* results['hits']['hits'] as the backend may return it for "size": top_k:
\* at most top_k distinct documents, in any ranking
HitLists(top_k) ==
    {h \in UNION {[1..n -> Catalog] : n \in 0..top_k} :
        \A i, j \in DOMAIN h : i # j => h[i] # h[j]}

\* results['hits']['hits'] for the lists of HitLists: one hit per document,
\* the document under '_source'
BackendHits(top_k) ==
    {[i \in 1..Len(ranked) |-> [_source |-> ranked[i]]] : ranked \in HitLists(top_k)}

\* lines 131-135 if hits whose '_source' lacks a required field were skipped
SourcesOf_SkipMalformed(found) ==
    LET sources == [i \in 1..Len(found) |-> found[i]._source]
        WellFormed(doc) ==
            {"name", "category", "price", "description"} \subseteq DOMAIN doc
    IN  SelectSeq(sources, WellFormed)

\* lines 131-135 if every source were put in front of the ones before it
SourcesOf_Reversed(found) ==
    [i \in 1..Len(found) |-> found[Len(found) + 1 - i]._source]

\* lines 131-135 of search_products: the '_source' of every hit, in hit order
SourcesOf(found) == [i \in 1..Len(found) |-> found[i]._source]

\* dict.get(key, default)
Get(d, key, default) == IF key \in DOMAIN d THEN d[key] ELSE default

\* the f-string rendering of dict.get(key) for a text value, None when missing
GetText(d, key) == Get(d, key, "None")

Pad(n, width) ==
    LET t == ToString(n)
    IN  IF Len(t) >= width THEN t
        ELSE SubSeq("000", 1, width - Len(t)) \o t

RECURSIVE Grouped(_)
\* the "," grouping of a non-negative integer
Grouped(n) ==
    IF n < 1000 THEN ToString(n)
    ELSE Grouped(n \div 1000) \o "," \o Pad(n % 1000, 3)

\* f"{price:,.2f}" for a price of cents/100
FormatPrice(cents) == Grouped(cents \div 100) \o "." \o Pad(cents % 100, 2)

\* f"{rating}" for a rating of tenths/10, None when missing
FormatRating(reviews) ==
    IF "rating" \in DOMAIN reviews
    THEN ToString(reviews.rating \div 10) \o "." \o ToString(reviews.rating % 10)
    ELSE "None"

FormatCount(reviews) ==
    IF "count" \in DOMAIN reviews THEN ToString(reviews.count) ELSE "None"

\* the head of a product block if enumerate(documents) counted from 0
ProductHead_ZeroBased(idx, doc) ==
    "\nProduct " \o ToString(idx - 1) \o ":\n"
    \o "- Name: " \o GetText(doc, "name") \o "\n"
    \o "- Category: " \o GetText(doc, "category") \o "\n"
    \o "- Price: $" \o FormatPrice(Get(doc, "price", 0)) \o "\n"
    \o "- Description: " \o GetText(doc, "description") \o "\n"

\* the four lines every product block starts with (both assemblers)
ProductHead(idx, doc) ==
    "\nProduct " \o ToString(idx) \o ":\n"
    \o "- Name: " \o GetText(doc, "name") \o "\n"
    \o "- Category: " \o GetText(doc, "category") \o "\n"
    \o "- Price: $" \o FormatPrice(Get(doc, "price", 0)) \o "\n"
    \o "- Description: " \o GetText(doc, "description") \o "\n"

RECURSIVE SpecLines(_)
\* one bullet line per <<key, value>> pair
SpecLines(pairs) ==
    IF pairs = <<>> THEN ""
    ELSE "  * " \o pairs[1][1] \o ": " \o pairs[1][2] \o "\n"
         \o SpecLines(Tail(pairs))

NO_PRODUCTS_CONTEXT == "No relevant products found in the database."

\* product_info of 02_context_chat.py without the [:5] of line 157
ProductInfo_AllSpecs(idx, doc) ==
    ProductHead(idx, doc)
    \o (IF "specifications" \in DOMAIN doc /\ doc.specifications # <<>>
        THEN "- Key Specs:\n" \o SpecLines(doc.specifications)
        ELSE "")
    \o (IF "reviews" \in DOMAIN doc
        THEN "- Rating: " \o FormatRating(doc.reviews) \o "/5.0 ("
             \o FormatCount(doc.reviews) \o " reviews)\n"
        ELSE "")

\* product_info of format_context in 02_context_chat.py
ProductInfo(idx, doc) ==
    ProductHead(idx, doc)
    \o (IF "specifications" \in DOMAIN doc /\ doc.specifications # <<>>
        THEN "- Key Specs:\n" \o SpecLines(PySliceTo(doc.specifications, 5))
        ELSE "")
    \o (IF "reviews" \in DOMAIN doc
        THEN "- Rating: " \o FormatRating(doc.reviews) \o "/5.0 ("
             \o FormatCount(doc.reviews) \o " reviews)\n"
        ELSE "")

\* format_context without its test for an empty list
FormatContext_NoEmptyCase(docs) ==
    Join("\n", [i \in 1..Len(docs) |-> ProductInfo(i, docs[i])])

\* format_context of 02_context_chat.py
FormatContext(docs) ==
    IF docs = <<>> THEN NO_PRODUCTS_CONTEXT
    ELSE Join("\n", [i \in 1..Len(docs) |-> ProductInfo(i, docs[i])])

\* product_info of 03_controlled_responses.py without the summary of line 142
ControlledProductInfo_NoSummary(idx, doc) ==
    ProductHead(idx, doc)
    \o (IF "specifications" \in DOMAIN doc /\ doc.specifications # <<>>
        THEN "- Specifications:\n" \o SpecLines(doc.specifications)
        ELSE "")
    \o (IF "features" \in DOMAIN doc
        THEN "- Features: " \o Join(", ", PySliceTo(doc.features, 5)) \o "\n"
        ELSE "")
    \o (IF "reviews" \in DOMAIN doc
        THEN "- Customer Rating: " \o FormatRating(doc.reviews) \o "/5.0 ("
             \o FormatCount(doc.reviews) \o " reviews)\n"
        ELSE "")

\* product_info of format_context in 03_controlled_responses.py
ControlledProductInfo(idx, doc) ==
    ProductHead(idx, doc)
    \o (IF "specifications" \in DOMAIN doc /\ doc.specifications # <<>>
        THEN "- Specifications:\n" \o SpecLines(doc.specifications)
        ELSE "")
    \o (IF "features" \in DOMAIN doc
        THEN "- Features: " \o Join(", ", PySliceTo(doc.features, 5)) \o "\n"
        ELSE "")
    \o (IF "reviews" \in DOMAIN doc
        THEN "- Customer Rating: " \o FormatRating(doc.reviews) \o "/5.0 ("
             \o FormatCount(doc.reviews) \o " reviews)\n"
             \o "- Review Summary: " \o GetText(doc.reviews, "summary") \o "\n"
        ELSE "")

\* format_context of 03_controlled_responses.py
ControlledFormatContext(docs) ==
    IF docs = <<>> THEN NO_PRODUCTS_CONTEXT
    ELSE Join("\n", [i \in 1..Len(docs) |-> ControlledProductInfo(i, docs[i])])

----------------------------------------------------------------------------
(* Inputs of the chat loops *)

\* what the user may type at the prompt
Utterances ==
    {"quit", "Exit", "Q", "Clear", "", "  ",
     "show me laptops", "how much is it?"}

\* what the LLM may return to the reformulation request
ReformulationTexts == {"", " laptop price\n"}

\* what the LLM may return to the generation request
GenerationTexts ==
    {"",
     "The Dell XPS 15 costs $1,899.00.",
     "I don't have that information in my database."}

\* what the LLM may return to the generation request of
\* generate_controlled_response
ControlledAnswers ==
    GenerationTexts \cup
    {"The Dell XPS 15 is the Best choice for you.",
     "The LG UltraFine is $349.50, an AMAZING monitor.",
     "The Dell XPS 15 is our bestseller at $1,899.00."}

QuitWords == {"quit", "exit", "q"}

\* question in ['quit', 'exit', 'q'] without lower()
QuitInputs_CaseSensitive == {q \in Utterances : q \in QuitWords}

\* the utterances by the branch of the loop that takes them:
\* question.lower() in ['quit', 'exit', 'q']
QuitInputs == {q \in Utterances : Lower(q) \in QuitWords}
\* question.lower() == 'clear'
ClearInputs == {q \in Utterances : Lower(q) = "clear"}
\* not question.strip()
BlankInputs == {q \in Utterances : Strip(q) = ""}

NO_INFO_RESPONSE ==
    "I don't have information about that in my product database. Could you rephrase your question?"

\* the response names a product of the catalog
NamesProduct(text) ==
    \E d \in Catalog : "name" \in DOMAIN d /\ Contains(text, d.name)

UserCount(conversation) ==
    Len(SelectSeq(conversation, LAMBDA m : m.role = "user"))

----------------------------------------------------------------------------
(* The chat completion requests *)

\* config.RAG_SYSTEM_PROMPT
RAG_SYSTEM_PROMPT ==
    "You are a helpful product assistant for an electronics store.\n\nRULES:\n1. Only answer questions using information from the provided product search results\n2. If no relevant products are found, say \"I don't have information about that\"\n3. Always include product names and prices in your recommendations\n4. Do not make up specifications, features, or prices\n5. Be concise (max 3-4 sentences per product mentioned)\n6. If asked about something outside the product catalog, politely decline\n\nFormat your responses to be helpful and informative."

\* the text generate_response appends to config.RAG_SYSTEM_PROMPT
HISTORY_INSTRUCTIONS ==
    "\n\nIMPORTANT: You have access to the conversation history. Use it to understand references like:\n- \"it\", \"that one\", \"the first one\" (refer to previously mentioned products)\n- \"compared to\", \"versus\" (compare with products mentioned earlier)\n- \"tell me more\" (expand on previous topic)\n\nAlways maintain context across the conversation."

CONTROLLED_SYSTEM_PROMPT ==
    "You are a professional product assistant for an electronics store.\n\nSTRICT RULES - YOU MUST FOLLOW THESE:\n\n1. **Only use provided data**: Answer ONLY based on the product information given. Never make up specifications, prices, or features.\n\n2. **Admit ignorance**: If the information isn't in the search results, say \"I don't have that information in my database.\"\n\n3. **Be accurate with numbers**: Always state exact prices, ratings, and specifications from the data. Don't round or estimate.\n\n4. **Stay on topic**: Only answer questions about products. Politely decline:\n   - Personal advice unrelated to products\n   - General tech support\n   - Questions about competitors not in the database\n   - Requests to perform actions (placing orders, etc.)\n\n5. **Response format**:\n   - Start with a direct answer\n   - Include product name(s) and price(s)\n   - Mention key specifications relevant to the question\n   - Keep responses under 150 words\n   - Use bullet points for comparisons\n\n6. **Tone**: Professional, helpful, concise. No fluff or marketing speak.\n\n7. **Comparisons**: When comparing products, use factual differences only. Don't make subjective judgments beyond what's in review data.\n\n8. **Availability**: Never claim products are \"in stock\" or make promises about availability. Stick to product specifications.\n\nEXAMPLES OF GOOD RESPONSES:\n- \"The Dell XPS 15 at $1,899 has 32GB RAM and RTX 4050 graphics, ideal for video editing.\"\n- \"I found 3 gaming laptops under $2000: [lists with names, prices, key specs]\"\n- \"I don't have information about battery replacement costs in my database.\"\n\nEXAMPLES OF BAD RESPONSES:\n- \"This is the best laptop ever!\" (subjective)\n- \"It costs around $2000\" (imprecise)\n- \"We have plenty in stock\" (outside scope)\n- \"You should definitely buy this\" (pushy)\n"

REFORMULATION_SYSTEM_PROMPT ==
    "Given a conversation history and the latest question, create a standalone search query that captures the user's intent. Return ONLY the search query, nothing else."

\* a message of a request that is not a message of the history
RequestMessage(role, content) == [role |-> role, content |-> content]

\* reformulation_messages of search_products
ReformulationMessages(conversation, query) ==
    <<RequestMessage("system", REFORMULATION_SYSTEM_PROMPT)>>
    \o PySliceFrom(conversation, -4)
    \o <<RequestMessage("user", "Create a standalone search query for: " \o query)>>

\* the content of the last message of generate_response
QuestionWithContext(context_text, question_text) ==
    "Based on the following product information, please answer the user's question.\n\nPRODUCT INFORMATION:\n"
    \o context_text \o "\n\nUSER QUESTION:\n" \o question_text
    \o "\n\nRemember to use the conversation history to understand references and maintain coherent dialogue."

\* messages of generate_response without the test of line 198
GenerationMessages_WithSystem(history_messages, context_text, question_text) ==
    <<RequestMessage("system", RAG_SYSTEM_PROMPT \o HISTORY_INSTRUCTIONS)>>
    \o history_messages
    \o <<RequestMessage("user", QuestionWithContext(context_text, question_text))>>

\* messages of generate_response
GenerationMessages(history_messages, context_text, question_text) ==
    <<RequestMessage("system", RAG_SYSTEM_PROMPT \o HISTORY_INSTRUCTIONS)>>
    \o SelectSeq(history_messages, NotSystem)
    \o <<RequestMessage("user", QuestionWithContext(context_text, question_text))>>

\* messages of generate_controlled_response
ControlledMessages(context_text, question_text) ==
    <<RequestMessage("system", CONTROLLED_SYSTEM_PROMPT),
      RequestMessage("user",
          "PRODUCT DATA:\n" \o context_text \o "\n\nUSER QUESTION:\n" \o question_text
          \o "\n\nProvide a helpful response following all the rules in your system prompt.")>>

----------------------------------------------------------------------------
(* generate_response called by any caller: the history may hold messages of *)
(* every role when the request is built                                      *)

\* the caller fills the history before the call
HistoryStepBeforeRequest == pc = "none" /\ NextHistory

\* lines 182-221: generate_response(client, question, context, history)
\* builds its messages and sends them
GenerateRequest ==
    /\ program = "history" /\ pc = "none"
    /\ \E q \in {"how much is it?"}, docs \in {<<>>, <<Laptop>>} :
          /\ question' = q
          /\ documents' = docs
          /\ context' = FormatContext(docs)
          /\ request' = GenerationMessages(messages, context', q)
    /\ pc' = "generate"
    /\ attempts' = 1
    /\ UNCHANGED <<messages, max_messages, nextSeq, program,
                   search_query_text, response, followed_rules, shown, calls,
                   lastOutcome, failedStage, histAtTurnStart, reformulation,
                   hits, answer, fusionVars, scriptVars>>

NextRequests == HistoryStepBeforeRequest \/ GenerateRequest

SpecRequests == InitHistory /\ [][NextRequests]_vars

----------------------------------------------------------------------------
(* chat_loop of 02_context_chat.py, one action per blocking call.          *)
(* pc names the call the loop is blocked in: "input" (console.input),      *)
(* "reformulate", "embed", "search", "generate"; "exited" after the loop.  *)

InitLoops ==
    /\ program \in {"chat", "controlled"}
    /\ messages = <<>>
    /\ max_messages \in IF program = "chat" THEN 1..MaxHistory ELSE {0}
    /\ nextSeq = 1
    /\ pc = "input"
    /\ question = ""
    /\ search_query_text = ""
    /\ documents = <<>>
    /\ context = ""
    /\ response = ""
    /\ followed_rules = <<>>
    /\ shown = ""
    /\ calls = {}
    /\ lastOutcome = "none"
    /\ failedStage = ""
    /\ histAtTurnStart = <<>>
    /\ reformulation = ""
    /\ hits = <<>>
    /\ attempts = 0
    /\ request = <<>>
    /\ answer = ""
    /\ FusionIdle
    /\ ScriptsIdle

\* the locals of an iteration that has made no call yet
FreshIteration(q) ==
    /\ question' = q
    /\ search_query_text' = ""
    /\ documents' = <<>>
    /\ context' = ""
    /\ response' = ""
    /\ followed_rules' = <<>>
    /\ shown' = ""
    /\ failedStage' = ""
    /\ histAtTurnStart' = messages
    /\ reformulation' = ""
    /\ hits' = <<>>
    /\ attempts' = 0
    /\ request' = <<>>
    /\ answer' = ""

\* line 97 with a fallback to the utterance for empty text
ReformulatedQuery_Fallback(query, content) ==
    IF Strip(content) = "" THEN query ELSE Strip(content)

\* line 97: search_query_text from the content of the reformulation
ReformulatedQuery(query, content) == Strip(content)

\* line 258 without the branch for an empty result
NoDocuments_Never(docs) == FALSE

\* line 258: not documents
NoDocuments(docs) == docs = <<>>

\* the test of search_products that decides on a reformulation request
NeedsReformulation_AnyUser(conversation) == UserCount(conversation) > 0

NeedsReformulation(conversation) == UserCount(conversation) > 1

\* lines 239-241: a quit command ends the loop
Quit ==
    /\ program = "chat" /\ pc = "input"
    /\ \E q \in QuitInputs : FreshIteration(q)
    /\ pc' = "exited"
    /\ calls' = {}
    /\ lastOutcome' = "quit"
    /\ UNCHANGED <<messages, max_messages, nextSeq, program, fusionVars, scriptVars>>

\* lines 243-246: the clear command
Clear ==
    /\ program = "chat" /\ pc = "input"
    /\ \E q \in ClearInputs \ QuitInputs : FreshIteration(q)
    /\ messages' = <<>>
    /\ pc' = "input"
    /\ calls' = {}
    /\ lastOutcome' = "cleared"
    /\ UNCHANGED <<max_messages, nextSeq, program, fusionVars, scriptVars>>

\* lines 248-249: blank input
Blank ==
    /\ program = "chat" /\ pc = "input"
    /\ \E q \in BlankInputs \ (QuitInputs \cup ClearInputs) : FreshIteration(q)
    /\ pc' = "input"
    /\ calls' = {}
    /\ lastOutcome' = "blank"
    /\ UNCHANGED <<messages, max_messages, nextSeq, program, fusionVars, scriptVars>>

\* lines 251-256 and 75-99: the utterance is appended to the history, then
\* search_products starts with the history as its conversation
Ask ==
    /\ program = "chat" /\ pc = "input"
    /\ nextSeq + 1 <= MaxCalls
    /\ \E q \in Utterances \ (QuitInputs \cup ClearInputs \cup BlankInputs) :
          /\ question' = q
          /\ messages' = AddMessage(messages, max_messages, "user", q, nextSeq)
          /\ IF NeedsReformulation(messages')
             THEN /\ pc' = "reformulate"
                  /\ search_query_text' = ""
                  /\ calls' = {"reformulate"}
                  /\ request' = ReformulationMessages(messages', q)
             ELSE /\ pc' = "embed"
                  /\ search_query_text' = q
                  /\ calls' = {"embed"}
                  /\ request' = <<>>
    /\ nextSeq' = nextSeq + 1
    /\ histAtTurnStart' = messages
    /\ reformulation' = ""
    /\ documents' = <<>>
    /\ context' = ""
    /\ response' = ""
    /\ shown' = ""
    /\ lastOutcome' = "running"
    /\ failedStage' = ""
    /\ hits' = <<>>
    /\ attempts' = 1
    /\ answer' = ""
    /\ UNCHANGED <<max_messages, program, followed_rules, fusionVars, scriptVars>>

\* the handler of lines 282-285 if it took the pending utterance back out of
\* the history
CaughtError_Rollback(stage) ==
    /\ pc' = "input"
    /\ lastOutcome' = "error"
    /\ failedStage' = stage
    /\ messages' = histAtTurnStart
    /\ UNCHANGED <<max_messages, nextSeq, program, question,
                   search_query_text, documents, context, response,
                   followed_rules, shown, calls, histAtTurnStart, reformulation,
                   hits, attempts, request, answer, fusionVars, scriptVars>>

\* the handler of lines 282-285 if it recorded an empty assistant turn
CaughtError_Phantom(stage) ==
    /\ pc' = "input"
    /\ lastOutcome' = "error"
    /\ failedStage' = stage
    /\ messages' = AddMessage(messages, max_messages, "assistant", "", nextSeq)
    /\ nextSeq' = nextSeq + 1
    /\ UNCHANGED <<max_messages, program, question,
                   search_query_text, documents, context, response,
                   followed_rules, shown, calls, histAtTurnStart, reformulation,
                   hits, attempts, request, answer, fusionVars, scriptVars>>

\* lines 282-285: except Exception prints the error, the loop goes on
CaughtError(stage) ==
    /\ pc' = "input"
    /\ lastOutcome' = "error"
    /\ failedStage' = stage
    /\ UNCHANGED <<messages, max_messages, nextSeq, program, question,
                   search_query_text, documents, context, response,
                   followed_rules, shown, calls, histAtTurnStart, reformulation,
                   hits, attempts, request, answer, fusionVars, scriptVars>>

\* lines 90-97: the reformulation request returns text
ReformulateReturn ==
    /\ program = "chat" /\ pc = "reformulate"
    /\ \E text \in ReformulationTexts :
          /\ reformulation' = text
          /\ search_query_text' = ReformulatedQuery(question, text)
    /\ pc' = "embed"
    /\ attempts' = 1
    /\ calls' = calls \cup {"embed"}
    /\ UNCHANGED <<messages, max_messages, nextSeq, program, question,
                   documents, context, response, followed_rules, shown,
                   lastOutcome, failedStage, histAtTurnStart,
                   hits, request, answer, fusionVars, scriptVars>>

\* lines 90-95: the reformulation request raises
ReformulateRaise ==
    /\ program = "chat" /\ pc = "reformulate"
    /\ CaughtError("reformulate")

\* line 102: the embedding request returns the query vector
EmbedReturn ==
    /\ program = "chat" /\ pc = "embed"
    /\ pc' = "search"
    /\ attempts' = 1
    /\ calls' = calls \cup {"search"}
    /\ UNCHANGED <<messages, max_messages, nextSeq, program, question,
                   search_query_text, documents, context, response,
                   followed_rules, shown, lastOutcome, failedStage,
                   histAtTurnStart, reformulation,
                   hits, request, answer, fusionVars, scriptVars>>

\* line 102: the embedding request raises
EmbedRaise ==
    /\ program = "chat" /\ pc = "embed"
    /\ CaughtError("embed")

\* lines 129-135 and 258-265: the search returns its hits; with no document
\* the fixed answer is appended and shown, otherwise the context is formatted
\* and the generation request is sent
SearchReturn ==
    /\ program = "chat" /\ pc = "search"
    /\ \E found \in BackendHits(RAG_TOP_K) :
          /\ hits' = found
          /\ documents' = SourcesOf(found)
          /\ IF NoDocuments(documents')
             THEN /\ response' = NO_INFO_RESPONSE
                  /\ messages' = AddMessage(messages, max_messages, "assistant",
                                            NO_INFO_RESPONSE, nextSeq)
                  /\ nextSeq' = nextSeq + 1
                  /\ shown' = NO_INFO_RESPONSE
                  /\ pc' = "input"
                  /\ lastOutcome' = "answered"
                  /\ UNCHANGED <<context, calls, attempts, request>>
             ELSE /\ context' = FormatContext(documents')
                  /\ pc' = "generate"
                  /\ calls' = calls \cup {"generate"}
                  /\ attempts' = 1
                  /\ request' = GenerationMessages(messages, context', question)
                  /\ UNCHANGED <<messages, nextSeq, response, shown, lastOutcome>>
    /\ UNCHANGED <<max_messages, program, question, search_query_text,
                   followed_rules, failedStage, histAtTurnStart, reformulation,
                   answer, fusionVars, scriptVars>>

\* line 129: the search raises
SearchRaise ==
    /\ program = "chat" /\ pc = "search"
    /\ CaughtError("search")

\* lines 216-223 and 269-277: the generation request returns text, which is
\* appended to the history and shown
GenerateReturn ==
    /\ program = "chat" /\ pc = "generate"
    /\ \E text \in GenerationTexts :
          /\ answer' = text
          /\ response' = text
          /\ messages' = AddMessage(messages, max_messages, "assistant", text, nextSeq)
          /\ shown' = text
    /\ nextSeq' = nextSeq + 1
    /\ pc' = "input"
    /\ lastOutcome' = "answered"
    /\ UNCHANGED <<max_messages, program, question, search_query_text,
                   documents, context, followed_rules, calls, failedStage,
                   histAtTurnStart, reformulation,
                   hits, attempts, request, fusionVars, scriptVars>>

\* lines 216-221: the generation request raises
GenerateRaise ==
    /\ program = "chat" /\ pc = "generate"
    /\ CaughtError("generate")

\* lines 279-281: KeyboardInterrupt at the prompt ends the loop; the locals
\* of the iteration before are dead and shown as reset
InterruptInput ==
    /\ program = "chat" /\ pc = "input"
    /\ FreshIteration("")
    /\ pc' = "exited"
    /\ calls' = {}
    /\ lastOutcome' = "interrupted"
    /\ UNCHANGED <<messages, max_messages, nextSeq, program, fusionVars, scriptVars>>

\* the handler of lines 279-281 if it took the pending utterance back out of
\* the history
Interrupt_Rollback ==
    /\ program = "chat"
    /\ pc \in {"reformulate", "embed", "search", "generate"}
    /\ pc' = "exited"
    /\ lastOutcome' = "interrupted"
    /\ failedStage' = pc
    /\ messages' = histAtTurnStart
    /\ UNCHANGED <<max_messages, nextSeq, program, question,
                   search_query_text, documents, context, response,
                   followed_rules, shown, calls, histAtTurnStart, reformulation,
                   hits, attempts, request, answer, fusionVars, scriptVars>>

\* lines 279-281: KeyboardInterrupt in a collaborator call ends the loop
Interrupt ==
    /\ program = "chat"
    /\ pc \in {"reformulate", "embed", "search", "generate"}
    /\ pc' = "exited"
    /\ lastOutcome' = "interrupted"
    /\ failedStage' = pc
    /\ UNCHANGED <<messages, max_messages, nextSeq, program, question,
                   search_query_text, documents, context, response,
                   followed_rules, shown, calls, histAtTurnStart, reformulation,
                   hits, attempts, request, answer, fusionVars, scriptVars>>

NextChat ==
    \/ Quit \/ Clear \/ Blank \/ Ask
    \/ ReformulateReturn \/ ReformulateRaise
    \/ EmbedReturn \/ EmbedRaise
    \/ SearchReturn \/ SearchRaise
    \/ GenerateReturn \/ GenerateRaise
    \/ InterruptInput \/ Interrupt

----------------------------------------------------------------------------
(* chat_loop of 03_controlled_responses.py: no history, no reformulation,  *)
(* the context is formatted and the generator called for every hit list    *)

Superlatives == {"best", "amazing", "incredible", "perfect"}

\* followed_rules if the superlatives were looked for in the answer as it is,
\* without answer.lower()
BasicValidation_CaseSensitive(text) ==
    [includes_price |-> Contains(text, "$"),
     concise |-> WordCount(text) < 200,
     no_superlatives |-> ~\E word \in Superlatives : Contains(text, word),
     factual_tone |-> TRUE]

\* followed_rules of generate_controlled_response
BasicValidation(text) ==
    [includes_price |-> Contains(text, "$"),
     concise |-> WordCount(text) < 200,
     no_superlatives |-> ~\E word \in Superlatives : Contains(Lower(text), word),
     factual_tone |-> TRUE]

\* the value of generate_controlled_response if an answer that breaks a rule
\* were withheld
ControlledResult_Withhold(text) ==
    [response |-> IF \A rule \in DOMAIN BasicValidation(text) : BasicValidation(text)[rule]
                  THEN text ELSE "",
     followed_rules |-> BasicValidation(text)]

\* lines 180-193: the value generate_controlled_response returns
ControlledResult(text) ==
    [response |-> text, followed_rules |-> BasicValidation(text)]

\* lines 263-265
CtlQuit ==
    /\ program = "controlled" /\ pc = "input"
    /\ \E q \in QuitInputs : FreshIteration(q)
    /\ pc' = "exited"
    /\ calls' = {}
    /\ lastOutcome' = "quit"
    /\ UNCHANGED <<messages, max_messages, nextSeq, program, fusionVars, scriptVars>>

\* lines 267-268
CtlBlank ==
    /\ program = "controlled" /\ pc = "input"
    /\ \E q \in BlankInputs \ QuitInputs : FreshIteration(q)
    /\ pc' = "input"
    /\ calls' = {}
    /\ lastOutcome' = "blank"
    /\ UNCHANGED <<messages, max_messages, nextSeq, program, fusionVars, scriptVars>>

\* lines 270-272 and 79: search_products starts with the utterance as query
CtlAsk ==
    /\ program = "controlled" /\ pc = "input"
    /\ \E q \in Utterances \ (QuitInputs \cup BlankInputs) :
          /\ question' = q
          /\ search_query_text' = q
    /\ documents' = <<>>
    /\ context' = ""
    /\ response' = ""
    /\ followed_rules' = <<>>
    /\ shown' = ""
    /\ failedStage' = ""
    /\ histAtTurnStart' = messages
    /\ reformulation' = ""
    /\ hits' = <<>>
    /\ attempts' = 1
    /\ request' = <<>>
    /\ answer' = ""
    /\ pc' = "embed"
    /\ calls' = {"embed"}
    /\ lastOutcome' = "running"
    /\ UNCHANGED <<messages, max_messages, nextSeq, program, fusionVars, scriptVars>>

\* line 79: the embedding request returns the query vector
CtlEmbedReturn ==
    /\ program = "controlled" /\ pc = "embed"
    /\ pc' = "search"
    /\ attempts' = 1
    /\ calls' = calls \cup {"search"}
    /\ UNCHANGED <<messages, max_messages, nextSeq, program, question,
                   search_query_text, documents, context, response,
                   followed_rules, shown, lastOutcome, failedStage,
                   histAtTurnStart, reformulation,
                   hits, request, answer, fusionVars, scriptVars>>

\* line 79: the embedding request raises; lines 292-293 print the error
CtlEmbedRaise ==
    /\ program = "controlled" /\ pc = "embed"
    /\ CaughtError("embed")

\* lines 105-111 and 272-276: the hits are formatted, empty or not, and the
\* generation request is sent
CtlSearchReturn ==
    /\ program = "controlled" /\ pc = "search"
    /\ \E found \in BackendHits(RAG_TOP_K) :
          /\ hits' = found
          /\ documents' = SourcesOf(found)
          /\ context' = ControlledFormatContext(documents')
          /\ request' = ControlledMessages(context', question)
    /\ pc' = "generate"
    /\ calls' = calls \cup {"generate"}
    /\ attempts' = 1
    /\ UNCHANGED <<messages, max_messages, nextSeq, program, question,
                   search_query_text, response, followed_rules, shown,
                   lastOutcome, failedStage, histAtTurnStart, reformulation,
                   answer, fusionVars, scriptVars>>

\* line 105: the search raises
CtlSearchRaise ==
    /\ program = "controlled" /\ pc = "search"
    /\ CaughtError("search")

\* lines 173-193 and 276-287: the generation request returns the answer,
\* which is validated and shown
CtlGenerateReturn ==
    /\ program = "controlled" /\ pc = "generate"
    /\ \E text \in ControlledAnswers :
          /\ answer' = text
          /\ response' = ControlledResult(text).response
          /\ followed_rules' = ControlledResult(text).followed_rules
          /\ shown' = ControlledResult(text).response
    /\ pc' = "input"
    /\ lastOutcome' = "answered"
    /\ UNCHANGED <<messages, max_messages, nextSeq, program, question,
                   search_query_text, documents, context, calls, failedStage,
                   histAtTurnStart, reformulation, hits, attempts, request,
                   fusionVars, scriptVars>>

\* lines 173-178: the generation request raises
CtlGenerateRaise ==
    /\ program = "controlled" /\ pc = "generate"
    /\ CaughtError("generate")

\* lines 289-291: KeyboardInterrupt at the prompt ends the loop
CtlInterruptInput ==
    /\ program = "controlled" /\ pc = "input"
    /\ FreshIteration("")
    /\ pc' = "exited"
    /\ calls' = {}
    /\ lastOutcome' = "interrupted"
    /\ UNCHANGED <<messages, max_messages, nextSeq, program, fusionVars, scriptVars>>

\* lines 289-291: KeyboardInterrupt in a collaborator call ends the loop
CtlInterrupt ==
    /\ program = "controlled"
    /\ pc \in {"embed", "search", "generate"}
    /\ pc' = "exited"
    /\ lastOutcome' = "interrupted"
    /\ failedStage' = pc
    /\ UNCHANGED <<messages, max_messages, nextSeq, program, question,
                   search_query_text, documents, context, response,
                   followed_rules, shown, calls, histAtTurnStart, reformulation,
                   hits, attempts, request, answer, fusionVars, scriptVars>>

NextControlled ==
    \/ CtlQuit \/ CtlBlank \/ CtlAsk
    \/ CtlEmbedReturn \/ CtlEmbedRaise
    \/ CtlSearchReturn \/ CtlSearchRaise
    \/ CtlGenerateReturn \/ CtlGenerateRaise
    \/ CtlInterruptInput \/ CtlInterrupt

Next == NextChat \/ NextControlled

Spec == InitLoops /\ [][Next]_vars

----------------------------------------------------------------------------
(* The context assemblers used on their own: one call on any document list *)

\* the lists handed to format_context hold at most MaxDocs documents
MaxDocs == 3

\* a document with a price above 1000 and more than 5 features
Keyboard ==
    [name |-> "Keychron Q1", category |-> "Keyboards", price |-> 123456789,
     description |-> "Mechanical keyboard",
     features |-> <<"Hot-swap", "RGB", "Gasket mount", "QMK", "Aluminium",
                    "Knob">>]

FormatInputs == Catalog \cup {Keyboard}

DocLists == UNION {[1..n -> FormatInputs] : n \in 0..MaxDocs}

InitFormat ==
    /\ messages = <<>>
    /\ max_messages = 0
    /\ nextSeq = 1
    /\ program = "format"
    /\ LoopIdle

\* context = format_context(documents) of 02_context_chat.py
FormatChat ==
    /\ program = "format" /\ pc = "none"
    /\ \E docs \in DocLists :
          /\ documents' = docs
          /\ context' = FormatContext(docs)
    /\ pc' = "chat_format"
    /\ UNCHANGED <<messages, max_messages, nextSeq, program, question,
                   search_query_text, response, followed_rules, shown, calls,
                   lastOutcome, failedStage, histAtTurnStart, reformulation,
                   hits, attempts, request, answer, fusionVars, scriptVars>>

\* context = format_context(documents) of 03_controlled_responses.py
FormatControlled ==
    /\ program = "format" /\ pc = "none"
    /\ \E docs \in DocLists :
          /\ documents' = docs
          /\ context' = ControlledFormatContext(docs)
    /\ pc' = "controlled_format"
    /\ UNCHANGED <<messages, max_messages, nextSeq, program, question,
                   search_query_text, response, followed_rules, shown, calls,
                   lastOutcome, failedStage, histAtTurnStart, reformulation,
                   hits, attempts, request, answer, fusionVars, scriptVars>>

\* format_context(documents) of 02_context_chat.py called again on the list
\* it has just formatted
FormatChatAgain ==
    /\ program = "format" /\ pc = "chat_format"
    /\ context' = FormatContext(documents)
    /\ pc' = "chat_format_again"
    /\ UNCHANGED <<messages, max_messages, nextSeq, program, question,
                   search_query_text, documents, response, followed_rules,
                   shown, calls, lastOutcome, failedStage, histAtTurnStart,
                   reformulation, hits, attempts, request, answer, fusionVars, scriptVars>>

NextFormat == FormatChat \/ FormatControlled \/ FormatChatAgain

SpecFormat == InitFormat /\ [][NextFormat]_vars

----------------------------------------------------------------------------
(* hybrid_search of 05_hybrid_search.py. The request names two rankings, the *)
(* multi_match query and the knn clause, and has the backend fuse them with  *)
(* "rank": {"rrf": ...}; the fusion is the formula of the docstring          *)
(*   RRF_score(doc) = sum of 1 / (k + rank(doc))                             *)
(* over the rankings doc is in. Scores are exact fractions <<num, den>>.     *)

\* rank_constant ranges over 1..MaxRankConstant and config.RRF_RANK_CONSTANT
MaxRankConstant == 3

RankConstants == (1..MaxRankConstant) \cup {RRF_RANK_CONSTANT}

\* the rank of doc in a ranking, 0 when the ranking does not have it
RankOf(ranking, doc) ==
    IF \E i \in 1..Len(ranking) : ranking[i] = doc
    THEN CHOOSE i \in 1..Len(ranking) : ranking[i] = doc
    ELSE 0

\* the term of a ranking if a document it lacks counted as ranked after its
\* last one
Contribution_AbsentRankedLast(ranking, doc, k) ==
    IF RankOf(ranking, doc) = 0 THEN <<1, k + Len(ranking) + 1>>
    ELSE <<1, k + RankOf(ranking, doc)>>

\* the term of one ranking in RRF_score(doc): 1 / (k + rank), nothing for a
\* ranking that does not have doc
Contribution(ranking, doc, k) ==
    IF RankOf(ranking, doc) = 0 THEN <<0, 1>>
    ELSE <<1, k + RankOf(ranking, doc)>>

\* the sum of two fractions
FractionSum(x, y) == <<x[1] * y[2] + y[1] * x[2], x[2] * y[2]>>

\* x > y for fractions with positive denominators
FractionGreater(x, y) == x[1] * y[2] > y[1] * x[2]

\* RRF_score(doc) for the two rankings of the request
RRFScore(lex, sem, doc, k) ==
    FractionSum(Contribution(lex, doc, k), Contribution(sem, doc, k))

\* the documents of either ranking by descending RRF_score, every order of
\* documents with equal scores
RRFRankings(lex, sem, k) ==
    LET found == {lex[i] : i \in 1..Len(lex)} \cup {sem[i] : i \in 1..Len(sem)}
        entry(doc) == [doc |-> doc, score |-> RRFScore(lex, sem, doc, k)]
    IN  {r \in [1..Cardinality(found) -> {entry(doc) : doc \in found}] :
            /\ \A i, j \in DOMAIN r : i # j => r[i] # r[j]
            /\ \A i, j \in DOMAIN r :
                  i < j => ~FractionGreater(r[j].score, r[i].score)}

InitFusion ==
    /\ messages = <<>>
    /\ max_messages = 0
    /\ nextSeq = 1
    /\ program = "fusion"
    /\ pc = "none"
    /\ question = ""
    /\ search_query_text = ""
    /\ documents = <<>>
    /\ context = ""
    /\ response = ""
    /\ followed_rules = <<>>
    /\ shown = ""
    /\ calls = {}
    /\ lastOutcome = "none"
    /\ failedStage = ""
    /\ histAtTurnStart = <<>>
    /\ reformulation = ""
    /\ hits = <<>>
    /\ attempts = 0
    /\ request = <<>>
    /\ answer = ""
    /\ rank_constant \in RankConstants
    /\ lexical = <<>>
    /\ semantic = <<>>
    /\ fused = <<>>
    /\ ScriptsIdle

\* results = hybrid_search(es, query, query_vector, size): the backend ranks
\* the index by the text query and by the vector, fuses the two rankings and
\* returns the first size documents of the fusion
HybridSearch ==
    /\ program = "fusion" /\ pc = "none"
    /\ \E lex \in HitLists(RAG_TOP_K), sem \in HitLists(RAG_TOP_K), size \in 1..RAG_TOP_K :
          /\ lexical' = lex
          /\ semantic' = sem
          /\ \E ranked \in RRFRankings(lex, sem, rank_constant) :
                /\ fused' = ranked
                /\ hits' = [i \in 1..Min(size, Len(ranked)) |-> [_source |-> ranked[i].doc]]
    /\ pc' = "fused"
    /\ UNCHANGED <<messages, max_messages, nextSeq, program, question,
                   search_query_text, documents, context, response,
                   followed_rules, shown, calls, lastOutcome, failedStage,
                   histAtTurnStart, reformulation, attempts, request, answer,
                   rank_constant, scriptVars>>

NextFusion == HybridSearch

SpecFusion == InitFusion /\ [][NextFusion]_vars

----------------------------------------------------------------------------
(* The one-shot scripts 01_basic_rag.py and 03_semantic_search.py: main      *)
(* from the search call on. pc names the call main is blocked in, "search"   *)
(* or "generate"; "exited" after sys.exit or the end of main.                *)

\* "_source" of the search request of retrieve_context
RAG_SOURCE_FIELDS ==
    {"name", "category", "price", "description", "specifications", "features"}

\* "_source" of the search request of semantic_search
SEMANTIC_SOURCE_FIELDS == {"name", "category", "price", "description"}

\* the fields of a document the backend returns for a "_source" filter
RestrictTo(doc, fields) == [key \in (DOMAIN doc \cap fields) |-> doc[key]]

\* response['hits']['hits'] for a request with a "_source" filter
FilteredHits(top_k, fields) ==
    {[i \in 1..Len(ranked) |-> [_source |-> RestrictTo(ranked[i], fields)]] :
        ranked \in HitLists(top_k)}

\* f"{price:.2f}" for a price of cents/100
PlainPrice(cents) == ToString(cents \div 100) \o "." \o Pad(cents % 100, 2)

\* f"{k}: {v}" for every pair of specs.items()
PairTexts(pairs) == [i \in 1..Len(pairs) |-> pairs[i][1] \o ": " \o pairs[i][2]]

\* lines 86-101 of retrieve_context: doc_text.strip() for the source of a hit
DocText(source) ==
    Strip("\nProduct: " \o Get(source, "name", "Unknown") \o "\n"
          \o "Category: " \o Get(source, "category", "N/A") \o "\n"
          \o "Price: $" \o PlainPrice(Get(source, "price", 0)) \o "\n"
          \o "Description: " \o Get(source, "description", "N/A") \o "\n"
          \o (IF Get(source, "features", <<>>) # <<>>
              THEN "Features: " \o Join(", ", source.features) \o "\n"
              ELSE "")
          \o (IF Get(source, "specifications", <<>>) # <<>>
              THEN "Specifications: "
                   \o Join(", ", PairTexts(source.specifications)) \o "\n"
              ELSE ""))

\* lines 79-103: what retrieve_context returns when the search returned
RetrieveContextReturn(found) ==
    [context_docs |-> [i \in 1..Len(found) |-> DocText(found[i]._source)],
     hits |-> found]

\* lines 105-107: what retrieve_context returns when the search raised
RetrieveContextExcept == [context_docs |-> <<>>, hits |-> <<>>]

\* Python's None
None == [none |-> TRUE]

\* lines 69-70: what semantic_search returns when the search returned
SemanticSearchReturn(found) ==
    [hits |-> [total |-> [value |-> Len(found)], hits |-> found]]

\* lines 71-73: what semantic_search returns when the search raised
SemanticSearchExcept == None

BASIC_SYSTEM_PROMPT ==
    "You are a helpful product assistant for an electronics store.\n\nIMPORTANT RULES:\n1. Only answer questions using information from the provided product search results\n2. If no relevant products are found in the context, say \"I don't have information about that\"\n3. Always include product names and prices in your recommendations\n4. Do not make up specifications, features, or prices\n5. Be concise and helpful\n6. If asked about something not in the product catalog, politely decline"

\* messages of generate_response of 01_basic_rag.py
BasicMessages(query, context_docs) ==
    <<RequestMessage("system", BASIC_SYSTEM_PROMPT),
      RequestMessage("user",
          "Based on the following product information, please answer this question:\n\nQuestion: "
          \o query \o "\n\nProduct Information:\n"
          \o Join("\n\n---\n\n", context_docs)
          \o "\n\nAnswer the question based ONLY on the information provided above.")>>

\* sys.argv[1:] joined
ScriptQuestions == {"show me laptops", "usb cable"}

\* size of the search of 03_semantic_search.py, at most the catalog
SEMANTIC_SIZE == 10

InitScripts ==
    /\ program \in {"basic_rag", "semantic_search"}
    /\ messages = <<>>
    /\ max_messages = 0
    /\ nextSeq = 1
    /\ pc = "search"
    /\ question \in ScriptQuestions
    /\ search_query_text = question
    /\ documents = <<>>
    /\ context = ""
    /\ response = ""
    /\ followed_rules = <<>>
    /\ shown = ""
    /\ calls = {"search"}
    /\ lastOutcome = "running"
    /\ failedStage = ""
    /\ histAtTurnStart = <<>>
    /\ reformulation = ""
    /\ hits = <<>>
    /\ attempts = 1
    /\ request = <<>>
    /\ answer = ""
    /\ FusionIdle
    /\ ScriptsIdle

\* lines 207-221 of main: the branch on the context_docs retrieve_context
\* returned, up to the generation request
BasicAfterRetrieve(result) ==
    IF result.context_docs = <<>>
    THEN /\ shown' = "No relevant products found"
         /\ pc' = "exited"
         /\ lastOutcome' = "exit_0"
         /\ UNCHANGED <<context, request, calls, attempts>>
    ELSE /\ context' = Join("\n\n---\n\n", result.context_docs)
         /\ request' = BasicMessages(question, result.context_docs)
         /\ pc' = "generate"
         /\ calls' = calls \cup {"generate"}
         /\ attempts' = 1
         /\ UNCHANGED <<shown, lastOutcome>>

\* the variables no action of the scripts changes
ScriptFrame ==
    UNCHANGED <<messages, max_messages, nextSeq, program, question,
                search_query_text, documents, followed_rules, histAtTurnStart,
                reformulation, fusionVars, max_retries, retry_delay, batch_size,
                batch_start, attempt, all_embeddings, waits, actions, twin>>

\* lines 79-103 and 205-221: the search returns
BasicSearchReturn ==
    /\ program = "basic_rag" /\ pc = "search"
    /\ \E found \in FilteredHits(RAG_TOP_K, RAG_SOURCE_FIELDS) :
          /\ returned' = RetrieveContextReturn(found)
          /\ hits' = returned'.hits
    /\ BasicAfterRetrieve(returned')
    /\ UNCHANGED <<response, answer, failedStage>>
    /\ ScriptFrame

\* lines 105-107 and 205-209: the search raises, retrieve_context prints the
\* error and returns
BasicSearchRaise ==
    /\ program = "basic_rag" /\ pc = "search"
    /\ returned' = RetrieveContextExcept
    /\ hits' = returned'.hits
    /\ failedStage' = "search"
    /\ BasicAfterRetrieve(returned')
    /\ UNCHANGED <<response, answer>>
    /\ ScriptFrame

\* lines 137-147 and 221-238: the generation request returns text
BasicGenerateReturn ==
    /\ program = "basic_rag" /\ pc = "generate"
    /\ \E text \in GenerationTexts :
          /\ answer' = text
          /\ response' = text
          /\ IF text = ""
             THEN shown' = "Failed to generate response" /\ lastOutcome' = "exit_1"
             ELSE shown' = text /\ lastOutcome' = "answered"
    /\ pc' = "exited"
    /\ UNCHANGED <<context, request, calls, attempts, hits, returned, failedStage>>
    /\ ScriptFrame

\* lines 149-151 and 223-225: the generation request raises, generate_response
\* returns None
BasicGenerateRaise ==
    /\ program = "basic_rag" /\ pc = "generate"
    /\ failedStage' = "generate"
    /\ shown' = "Failed to generate response"
    /\ lastOutcome' = "exit_1"
    /\ pc' = "exited"
    /\ UNCHANGED <<context, request, calls, attempts, hits, returned, response,
                   answer>>
    /\ ScriptFrame

\* lines 240-242: KeyboardInterrupt in a call
BasicInterrupt ==
    /\ program = "basic_rag" /\ pc \in {"search", "generate"}
    /\ failedStage' = pc
    /\ shown' = "Interrupted"
    /\ lastOutcome' = "interrupted"
    /\ pc' = "exited"
    /\ UNCHANGED <<context, request, calls, attempts, hits, returned, response,
                   answer>>
    /\ ScriptFrame

\* lines 77-86 of display_results: what is printed above the table
DisplayHead(result) ==
    IF result = None \/ "hits" \notin DOMAIN result
    THEN "No results found"
    ELSE "Found " \o ToString(result.hits.total.value) \o " results"

\* lines 69-70 and 142-150 of 03_semantic_search.py: the search returns and
\* the results are displayed
SemanticReturn ==
    /\ program = "semantic_search" /\ pc = "search"
    /\ \E found \in FilteredHits(Min(SEMANTIC_SIZE, Cardinality(Catalog)),
                                SEMANTIC_SOURCE_FIELDS) :
          /\ returned' = SemanticSearchReturn(found)
          /\ hits' = found
    /\ shown' = DisplayHead(returned')
    /\ lastOutcome' = "displayed"
    /\ pc' = "exited"
    /\ UNCHANGED <<context, request, calls, attempts, response, answer, failedStage>>
    /\ ScriptFrame

\* lines 71-73 and 142-150: the search raises, semantic_search prints the
\* error and returns None, which is displayed
SemanticRaise ==
    /\ program = "semantic_search" /\ pc = "search"
    /\ returned' = SemanticSearchExcept
    /\ failedStage' = "search"
    /\ shown' = DisplayHead(returned')
    /\ lastOutcome' = "displayed"
    /\ pc' = "exited"
    /\ UNCHANGED <<context, request, calls, attempts, response, answer, hits>>
    /\ ScriptFrame

\* lines 152-154: KeyboardInterrupt in the search
SemanticInterrupt ==
    /\ program = "semantic_search" /\ pc = "search"
    /\ failedStage' = pc
    /\ shown' = "Search interrupted"
    /\ lastOutcome' = "interrupted"
    /\ pc' = "exited"
    /\ UNCHANGED <<context, request, calls, attempts, response, answer, hits,
                   returned>>
    /\ ScriptFrame

NextScripts ==
    \/ BasicSearchReturn \/ BasicSearchRaise
    \/ BasicGenerateReturn \/ BasicGenerateRaise \/ BasicInterrupt
    \/ SemanticReturn \/ SemanticRaise \/ SemanticInterrupt

SpecScripts == InitScripts /\ [][NextScripts]_vars

----------------------------------------------------------------------------
(* index_documents_with_embeddings of 02_generate_embeddings.py, one action *)
(* per step of its loops and per outcome of a blocking call. pc names where *)
(* the function is: "batch" at the head of the loop over the batches,       *)
(* "embed" in generate_embeddings_batch, "bulk" in the bulk call, "exited"  *)
(* after the return or the exception.                                       *)

\* config.MAX_RETRIES ranges over 0..MaxRetries
MaxRetries == 4
\* config.RETRY_DELAY ranges over 1..MaxRetryDelay
MaxRetryDelay == 2
\* config.EMBEDDING_BATCH_SIZE ranges over 0..MaxBatch and the configured value
MaxBatch == 2
\* load_documents returns at most MaxLoaded documents
MaxLoaded == 3

\* documents of the sample data: with more than five features, with an empty
\* list of features, without features
SampleDocuments ==
    {[id |-> "prod-001", name |-> "Sony WH-1000XM5",
      description |-> "Wireless noise cancelling headphones",
      category |-> "Audio",
      features |-> <<"ANC", "30h battery", "Bluetooth 5.2", "Multipoint",
                     "Fast charge", "Foldable">>],
     [id |-> "prod-002", name |-> "Logitech C920",
      description |-> "Full HD webcam",
      category |-> "Accessories", features |-> <<>>],
     [id |-> "prod-003", name |-> "Logitech MX Master 3",
      description |-> "Ergonomic wireless mouse", category |-> "Accessories"]}

\* json.load of the sample data: a list of distinct documents
LoadedDocuments ==
    {d \in UNION {[1..n -> SampleDocuments] : n \in 0..MaxLoaded} :
        \A a, b \in DOMAIN d : a # b => d[a] # d[b]}

\* prepare_text_for_embedding(doc)
PrepareTextForEmbedding(doc) ==
    Join(" | ",
         <<doc.name, doc.description, "Category: " \o doc.category>>
         \o (IF "features" \in DOMAIN doc /\ doc.features # <<>>
             THEN <<"Features: " \o Join(", ", PySliceTo(doc.features, 5))>>
             ELSE <<>>))

\* texts of line 76
Texts(docs) == [n \in 1..Len(docs) |-> PrepareTextForEmbedding(docs[n])]

\* the vector the embedding model gives a text
Embedding(text) == [vector_of |-> text]

\* generate_embeddings_batch(client, texts) when the call returns: one
\* embedding for every text of the input, in the order of the input
GenerateEmbeddingsBatch(texts) == [n \in 1..Len(texts) |-> Embedding(texts[n])]

\* texts[i:i + config.EMBEDDING_BATCH_SIZE] of line 83
BatchTexts(texts, start, size) ==
    SubSeq(texts, start + 1, Min(start + size, Len(texts)))

\* the sleep of line 94 if the wait doubled with every retry
RetryWait_Doubling(delay, tried) == delay * 2 ^ tried

\* config.RETRY_DELAY * (attempt + 1) of line 94
RetryWait(delay, tried) == delay * (tried + 1)

\* lines 102-114: the bulk actions, one for every pair of
\* zip(documents, all_embeddings)
BulkActions(docs, embeddings) ==
    LET pairs == [n \in 1..Min(Len(docs), Len(embeddings)) |->
                     <<docs[n], embeddings[n]>>]
    IN  [n \in 1..Len(pairs) |->
            [_id |-> pairs[n][1].id,
             _source |-> [k \in DOMAIN pairs[n][1] \cup {"embedding_vector"} |->
                             IF k = "embedding_vector" THEN pairs[n][2]
                             ELSE pairs[n][1][k]]]]

RetryBounds == (0..MaxRetries) \cup {MAX_RETRIES}
BatchSizes == (0..MaxBatch) \cup {EMBEDDING_BATCH_SIZE}

\* main up to the call of index_documents_with_embeddings, and its lines
\* 71-80
InitIndexing ==
    /\ program = "indexing"
    /\ messages = <<>>
    /\ max_messages = 0
    /\ nextSeq = 1
    /\ pc = "batch"
    /\ question = ""
    /\ search_query_text = ""
    /\ documents \in LoadedDocuments
    /\ context = ""
    /\ response = ""
    /\ followed_rules = <<>>
    /\ shown = ""
    /\ calls = {}
    /\ lastOutcome = "running"
    /\ failedStage = ""
    /\ histAtTurnStart = <<>>
    /\ reformulation = ""
    /\ hits = <<>>
    /\ attempts = 0
    /\ request = <<>>
    /\ answer = ""
    /\ FusionIdle
    /\ returned = <<>>
    /\ max_retries \in RetryBounds
    /\ retry_delay \in (1..MaxRetryDelay) \cup {RETRY_DELAY}
    /\ batch_size \in BatchSizes
    /\ batch_start = 0
    /\ attempt = 0
    /\ all_embeddings = <<>>
    /\ waits = <<>>
    /\ actions = <<>>
    /\ twin = <<>>

\* the variables no action of the indexing changes
IndexingFrame ==
    UNCHANGED <<messages, max_messages, nextSeq, program, question,
                search_query_text, documents, context, response,
                followed_rules, shown, calls, histAtTurnStart, reformulation,
                hits, request, answer, fusionVars, max_retries, retry_delay,
                batch_size, twin>>

\* line 82: range(0, len(texts), 0) raises ValueError, which main's caller
\* prints before sys.exit(1)
RangeRaise ==
    /\ program = "indexing" /\ pc = "batch"
    /\ batch_size = 0
    /\ pc' = "exited"
    /\ lastOutcome' = "error"
    /\ failedStage' = "range"
    /\ UNCHANGED <<attempts, returned, batch_start, attempt, all_embeddings,
                   waits, actions>>
    /\ IndexingFrame

\* lines 82-88: the next batch is taken and its first embedding call made;
\* with an empty range(config.MAX_RETRIES) the body of the retry loop is
\* skipped and the loop goes on with the batch after it
StartBatch ==
    /\ program = "indexing" /\ pc = "batch"
    /\ batch_size > 0
    /\ batch_start < Len(Texts(documents))
    /\ attempt' = 0
    /\ IF max_retries > 0
       THEN /\ pc' = "embed"
            /\ attempts' = 1
            /\ UNCHANGED batch_start
       ELSE /\ batch_start' = batch_start + batch_size
            /\ attempts' = 0
            /\ UNCHANGED pc
    /\ UNCHANGED <<lastOutcome, failedStage, returned, all_embeddings, waits,
                   actions>>
    /\ IndexingFrame

\* lines 88-90: the embedding call returns, the embeddings of the batch are
\* added and the retry loop is left
EmbeddingsReturn ==
    /\ program = "indexing" /\ pc = "embed"
    /\ all_embeddings' = all_embeddings
          \o GenerateEmbeddingsBatch(BatchTexts(Texts(documents), batch_start,
                                                batch_size))
    /\ batch_start' = batch_start + batch_size
    /\ pc' = "batch"
    /\ UNCHANGED <<lastOutcome, failedStage, attempts, returned, attempt,
                   waits, actions>>
    /\ IndexingFrame

\* lines 91-96 if the error was raised only after one more attempt
EmbeddingsRaise_OneMore ==
    /\ program = "indexing" /\ pc = "embed"
    /\ IF attempt < max_retries
       THEN /\ waits' = Append(waits, RetryWait(retry_delay, attempt))
            /\ attempt' = attempt + 1
            /\ attempts' = attempts + 1
            /\ UNCHANGED <<pc, lastOutcome, failedStage>>
       ELSE /\ pc' = "exited"
            /\ lastOutcome' = "error"
            /\ failedStage' = "embed"
            /\ UNCHANGED <<waits, attempt, attempts>>
    /\ UNCHANGED <<returned, batch_start, all_embeddings, actions>>
    /\ IndexingFrame

\* lines 91-96: the embedding call raises; before the last attempt the
\* function sleeps and calls again, after the last one the exception leaves
\* the function and main's caller prints it before sys.exit(1)
EmbeddingsRaise ==
    /\ program = "indexing" /\ pc = "embed"
    /\ IF attempt < max_retries - 1
       THEN /\ waits' = Append(waits, RetryWait(retry_delay, attempt))
            /\ attempt' = attempt + 1
            /\ attempts' = attempts + 1
            /\ UNCHANGED <<pc, lastOutcome, failedStage>>
       ELSE /\ pc' = "exited"
            /\ lastOutcome' = "error"
            /\ failedStage' = "embed"
            /\ UNCHANGED <<waits, attempt, attempts>>
    /\ UNCHANGED <<returned, batch_start, all_embeddings, actions>>
    /\ IndexingFrame

\* lines 98-117: the loop over the batches is over, the actions are built
\* and handed to bulk
PrepareBulk ==
    /\ program = "indexing" /\ pc = "batch"
    /\ batch_size > 0
    /\ batch_start >= Len(Texts(documents))
    /\ actions' = BulkActions(documents, all_embeddings)
    /\ pc' = "bulk"
    /\ UNCHANGED <<lastOutcome, failedStage, attempts, returned, batch_start,
                   attempt, all_embeddings, waits>>
    /\ IndexingFrame

\* lines 117-119: bulk returns the number of documents it indexed
BulkReturn ==
    /\ program = "indexing" /\ pc = "bulk"
    /\ returned' = [success |-> Len(actions), failed |-> 0]
    /\ pc' = "exited"
    /\ lastOutcome' = "indexed"
    /\ UNCHANGED <<failedStage, attempts, batch_start, attempt, all_embeddings,
                   waits, actions>>
    /\ IndexingFrame

\* line 117: bulk raises, main's caller prints the exception before
\* sys.exit(1)
BulkRaise ==
    /\ program = "indexing" /\ pc = "bulk"
    /\ pc' = "exited"
    /\ lastOutcome' = "error"
    /\ failedStage' = "bulk"
    /\ UNCHANGED <<attempts, returned, batch_start, attempt, all_embeddings,
                   waits, actions>>
    /\ IndexingFrame

NextIndexing ==
    \/ RangeRaise \/ StartBatch \/ EmbeddingsReturn \/ EmbeddingsRaise
    \/ PrepareBulk \/ BulkReturn \/ BulkRaise

SpecIndexing == InitIndexing /\ [][NextIndexing]_vars

----------------------------------------------------------------------------
(* Claims about ConversationHistory *)

\* C1: after every add_message the history holds at most max_messages
\* messages, whatever the roles of the messages appended
C1_LengthAtMostMax == Len(messages) <= max_messages

\* a step that is one add_message call
IsAddStep == nextSeq' = nextSeq + 1

\* a step that is one clear() call
IsClearStep == nextSeq' = nextSeq /\ messages' = <<>>

\* every system message of the history before the step is in it after the step
SystemMessagesKept ==
    \A i \in DOMAIN messages :
        IsSystem(messages[i]) => \E j \in DOMAIN messages' : messages'[j] = messages[i]

\* C2: once the history holds max_messages messages, an add_message leaves
\* exactly max_messages messages and keeps every system message
C2_FullStaysFull ==
    [][(IsAddStep /\ Len(messages) = max_messages)
          => (Len(messages') = max_messages /\ SystemMessagesKept)]_vars

\* C3: a system message is never removed by add_message; a step in which a
\* system message leaves the history is a clear()
C3_SystemNeverEvicted ==
    [][(IsAddStep => SystemMessagesKept)
       /\ (~SystemMessagesKept => IsClearStep)]_vars

\* C3 witness: a system message is still in the history although
\* max_messages or more messages were appended after it (trimming has run)
C3_Witness ==
    \E i \in DOMAIN messages :
        /\ IsSystem(messages[i])
        /\ nextSeq - 1 - messages[i].seq >= max_messages
        /\ \E j \in DOMAIN messages : NotSystem(messages[j])

----------------------------------------------------------------------------
(* Claims about the chat loops *)

\* a turn of the conversational loop is under way: the utterance was
\* appended and the assistant message was not
TurnRunning == program = "chat" /\ lastOutcome = "running"

\* the last message of the history is the utterance of the current turn
LastIsUserTurn ==
    /\ messages # <<>>
    /\ messages[Len(messages)].role = "user"
    /\ messages[Len(messages)].content = question

\* the history is the most recent messages of the history before the turn,
\* followed by the utterance, trimmed to max_messages
HistoryPlusUtterance ==
    LET n == Len(messages)
        h == Len(histAtTurnStart)
    IN  /\ LastIsUserTurn
        /\ n = Min(h + 1, max_messages)
        /\ SubSeq(messages, 1, n - 1) = SubSeq(histAtTurnStart, h - n + 2, h)

\* the history before the turn is one user turn and its answer
OneEarlierTurn ==
    /\ Len(histAtTurnStart) = 2
    /\ histAtTurnStart[1].role = "user"
    /\ histAtTurnStart[2].role = "assistant"

\* the history handed to search_products holds a user turn older than the
\* current utterance
EarlierUserTurnRetained ==
    \E i \in 1..(Len(messages) - 1) : messages[i].role = "user"

\* C4 as claimed: with exactly one earlier user turn and its answer in the
\* history, the search uses the utterance unchanged and no reformulation
\* request is made
C4_BypassWithOneEarlierTurn ==
    (TurnRunning /\ OneEarlierTurn)
        => /\ "reformulate" \notin calls
           /\ (pc \in {"embed", "search"} => search_query_text = question)

\* C4: the reformulation request is made exactly when the history handed to
\* search_products holds a user turn older than the current utterance; when it
\* holds none, the search uses the utterance unchanged
C4_BypassWithoutEarlierTurn ==
    TurnRunning
        => /\ ("reformulate" \in calls) <=> EarlierUserTurnRetained
           /\ (~EarlierUserTurnRetained /\ pc \in {"embed", "search", "generate"}
                  => search_query_text = question)

\* C4 witness: a search runs on the unchanged utterance, without a
\* reformulation request, although a turn came before (it was trimmed away)
C4_Witness ==
    /\ TurnRunning /\ pc = "search"
    /\ "reformulate" \notin calls
    /\ search_query_text = question
    /\ histAtTurnStart # <<>>

\* C5 as claimed: a reformulation request that raises or returns empty text
\* does not stop the retrieval, which runs on the raw utterance
C5_FallbackToUtterance ==
    program = "chat"
        => /\ ~(lastOutcome = "error" /\ failedStage = "reformulate")
           /\ (/\ pc \in {"embed", "search"}
               /\ "reformulate" \in calls
               /\ Strip(reformulation) = "")
                  => search_query_text = question

\* C5: a reformulation request that raises ends the turn before any embedding
\* or search call; one that returns empty or blank text makes the retrieval
\* run on the empty string
C5_NoFallback ==
    program = "chat"
        => /\ (lastOutcome = "error" /\ failedStage = "reformulate")
                  => (pc = "input" /\ calls = {"reformulate"} /\ documents = <<>>)
           /\ (/\ pc \in {"embed", "search"}
               /\ "reformulate" \in calls
               /\ Strip(reformulation) = "")
                  => search_query_text = ""

\* C5 witness: the search call runs after a reformulation returned empty text
C5_Witness ==
    /\ program = "chat" /\ pc = "search"
    /\ "reformulate" \in calls
    /\ reformulation = ""
    /\ search_query_text = ""

\* the embedding or the search call of the turn raised
RetrievalFailed ==
    program = "chat" /\ lastOutcome = "error" /\ failedStage \in {"embed", "search"}

\* C6 as claimed: after a failed retrieval the history is the history from
\* before the turn
C6_HistoryRestored == RetrievalFailed => messages = histAtTurnStart

\* C6: after a failed retrieval the turn is over without a generation call,
\* and the history is the history from before the turn with the utterance
\* appended
C6_UtteranceKept ==
    RetrievalFailed
        => /\ pc = "input"
           /\ "generate" \notin calls
           /\ HistoryPlusUtterance

\* C6 witness: the search raised in a turn that began with a full history
C6_Witness ==
    /\ RetrievalFailed /\ failedStage = "search"
    /\ Len(histAtTurnStart) = max_messages
    /\ HistoryPlusUtterance

\* the generation call of the turn raised
GenerationRaised ==
    program = "chat" /\ lastOutcome = "error" /\ failedStage = "generate"

\* the generation call of the turn returned empty text
GenerationEmpty ==
    /\ program = "chat" /\ lastOutcome = "answered"
    /\ "generate" \in calls /\ response = ""

\* C7 as claimed: after a generation that raised or returned empty text the
\* history ends with the user's turn, with no assistant turn after it
C7_NoAssistantTurn == (GenerationRaised \/ GenerationEmpty) => LastIsUserTurn

\* C7: after a generation that raised the history ends with the user's turn;
\* after a generation that returned empty text it ends with an assistant turn
\* of empty content
C7_EmptyAnswerRecorded ==
    /\ GenerationRaised => HistoryPlusUtterance
    /\ GenerationEmpty =>
          /\ messages # <<>>
          /\ messages[Len(messages)].role = "assistant"
          /\ messages[Len(messages)].content = ""

\* C7 witness: the generation raised and the history ends with the utterance
C7_Witness == GenerationRaised /\ LastIsUserTurn /\ documents # <<>>

\* the user interrupted the turn in one of its collaborator calls
TurnInterrupted ==
    /\ program = "chat" /\ lastOutcome = "interrupted"
    /\ failedStage \in {"reformulate", "embed", "search", "generate"}

\* C8 as claimed: after an interrupted turn the history holds no message of
\* that turn
C8_InterruptRollsBack == TurnInterrupted => messages = histAtTurnStart

\* C8: an interrupt in a collaborator call of the turn ends the loop; the
\* history then ends with the utterance of the interrupted turn and holds no
\* assistant message of it
C8_InterruptKeepsUtterance ==
    TurnInterrupted => (pc = "exited" /\ HistoryPlusUtterance)

\* C8 witness: the turn was interrupted in its generation call
C8_Witness ==
    TurnInterrupted /\ failedStage = "generate" /\ HistoryPlusUtterance

\* the search of the last turn returned no document and the turn is over
EmptyResultTurnOver ==
    /\ pc = "input"
    /\ "search" \in calls
    /\ documents = <<>>
    /\ \/ lastOutcome = "answered"
       \/ lastOutcome = "error" /\ failedStage = "generate"

\* the no-information answers the two scripts word: line 259 of
\* 02_context_chat.py and rule 2 of the prompt of 03_controlled_responses.py
NoInformationAnswers ==
    {NO_INFO_RESPONSE, "I don't have that information in my database."}

\* C9 as claimed: in either chat loop a turn whose search returns no document
\* ends without an error with a fixed no-information answer, which names no
\* product, and the conversational loop does not call the generator
C9_FixedAnswerInEveryLoop ==
    EmptyResultTurnOver
        => /\ lastOutcome = "answered"
           /\ shown \in NoInformationAnswers
           /\ ~NamesProduct(shown)
           /\ (program = "chat" => "generate" \notin calls)

\* C9: in the conversational loop a turn whose search returns no document
\* ends without an error with the fixed answer, which names no product, and
\* without a generation call; in the controlled-response loop the generator
\* is called on the fixed sentinel context and its answer is shown as it is
C9_FixedAnswerInChatLoop ==
    /\ (program = "chat" /\ EmptyResultTurnOver)
          => /\ lastOutcome = "answered"
             /\ shown = "I don't have information about that in my product database. Could you rephrase your question?"
             /\ ~NamesProduct(shown)
             /\ "generate" \notin calls
             /\ messages[Len(messages)] = Message("assistant", shown, nextSeq - 1)
    /\ (program = "controlled" /\ EmptyResultTurnOver)
          => /\ "generate" \in calls
             /\ context = NO_PRODUCTS_CONTEXT
             /\ (lastOutcome = "answered" => shown = response)

\* C9 witness: a turn of the conversational loop ended with the fixed answer
C9_Witness ==
    /\ program = "chat" /\ EmptyResultTurnOver
    /\ shown = NO_INFO_RESPONSE
    /\ "generate" \notin calls

\* C10: both format_context functions return the one sentinel string for an
\* empty document list and never for a non-empty one
C10_SentinelOnlyForEmpty ==
    (program = "format" /\ pc \in {"chat_format", "controlled_format"})
        => ((documents = <<>>)
               <=> (context = "No relevant products found in the database."))

\* C10 witness: format_context was applied to the empty list
C10_Witness ==
    /\ program = "format" /\ pc = "chat_format"
    /\ documents = <<>>
    /\ context = "No relevant products found in the database."

----------------------------------------------------------------------------
(* Claims about retrieval *)

\* the embedding or the search call of a turn of either loop raised and the
\* failure reached the handler of the loop
RetrievalSurfaced ==
    /\ program \in {"chat", "controlled"}
    /\ lastOutcome = "error"
    /\ failedStage \in {"embed", "search"}

\* C11: a failure of the embedding or of the search call reaches the handler
\* of the turn loop only after the call has been attempted again, at most
\* MAX_RETRIES times in all
C11_RetriedBeforeSurfaced ==
    RetrievalSurfaced => (attempts > 1 /\ attempts <= MAX_RETRIES)

\* the search call of the current turn has returned its hits
SearchReturned ==
    /\ program \in {"chat", "controlled"}
    /\ "search" \in calls
    /\ pc # "search"
    /\ failedStage # "search"

RequiredFields == {"name", "category", "price", "description"}

\* the document has every required field
WellFormedDocument(doc) == RequiredFields \subseteq DOMAIN doc

\* the sources of the hits that have every required field, in hit order
WellFormedSources ==
    SelectSeq([i \in 1..Len(hits) |-> hits[i]._source], WellFormedDocument)

\* C12 as claimed: the documents search_products returns are the well-formed
\* sources of the hits, a source that lacks a required field is left out
C12_MalformedLeftOut == SearchReturned => documents = WellFormedSources

\* the block of the context for the document at position i shows None for a
\* missing name and $0.00 for a missing price
MissingFieldsRendered(i) ==
    /\ "name" \notin DOMAIN documents[i]
          => Contains(context, "\nProduct " \o ToString(i) \o ":\n- Name: None\n")
    /\ "price" \notin DOMAIN documents[i]
          => Contains(context, "\n- Price: $0.00\n")

\* C12: every hit is returned, also a hit whose source lacks a required
\* field, and the context has a block for it that shows None for a missing
\* name and $0.00 for a missing price
C12_MalformedKept ==
    SearchReturned =>
        /\ Len(documents) = Len(hits)
        /\ \A i \in 1..Len(hits) : documents[i] = hits[i]._source
        /\ documents # <<>> =>
              /\ Contains(context, "\nProduct " \o ToString(Len(documents)) \o ":\n")
              /\ \A i \in 1..Len(documents) : MissingFieldsRendered(i)

\* C12 witness: the search returned a well-formed document after one without
\* name and price, and both are in the context sent to the generator
C12_Witness ==
    /\ SearchReturned /\ pc = "generate"
    /\ Len(documents) = 2
    /\ ~WellFormedDocument(documents[1])
    /\ WellFormedDocument(documents[2])
    /\ Contains(context, "\nProduct 1:\n- Name: None\n")
    /\ Contains(context, "\nProduct 2:\n- Name: Dell XPS 15\n")

----------------------------------------------------------------------------
(* Claims about the context assemblers *)

\* a format_context function has been applied to documents
ChatFormatted == program = "format" /\ pc = "chat_format"
ControlledFormatted == program = "format" /\ pc = "controlled_format"

\* the position of the first occurrence of sub in s, 0 when there is none
Find(s, sub) ==
    LET at == {i \in 1..(Len(s) - Len(sub) + 1) : SubSeq(s, i, i + Len(sub) - 1) = sub}
    IN  IF at = {} THEN 0 ELSE CHOOSE i \in at : \A j \in at : i <= j

\* the specification pairs of a document, none when it has no such field
SpecPairs(doc) ==
    IF "specifications" \in DOMAIN doc THEN doc.specifications ELSE <<>>

\* the text of a specification pair in the context
PairText(pair) == " " \o pair[1] \o ": " \o pair[2] \o "\n"

\* the context lists the specification pairs of every document in their
\* order: the first 5 and no other when capped, else all of them
ListsPairs(capped) ==
    \A i \in 1..Len(documents) :
        LET pairs == SpecPairs(documents[i])
            n == IF capped THEN 5 ELSE Len(pairs)
        IN
        /\ \A j \in 1..Len(pairs) :
              Contains(context, PairText(pairs[j])) <=> j <= n
        /\ \A j \in 1..(Len(pairs) - 1) :
              j + 1 <= n
                 => Find(context, PairText(pairs[j])) < Find(context, PairText(pairs[j + 1]))

\* C13 as claimed: both format_context functions list the first 5
\* specification pairs of a document and no further pair
C13_FirstFiveInEveryAssembler ==
    (ChatFormatted \/ ControlledFormatted) => ListsPairs(TRUE)

\* C13: format_context of the conversational chat lists the first 5
\* specification pairs of a document in their order and no further pair;
\* format_context of the controlled-response chat lists every pair, in order
C13_FirstFiveInChatAllInControlled ==
    /\ ChatFormatted => ListsPairs(TRUE)
    /\ ControlledFormatted => ListsPairs(FALSE)

\* C13 witness: the conversational assembler formatted a document with 6
\* pairs and left the sixth out
C13_Witness ==
    /\ ChatFormatted
    /\ \E i \in 1..Len(documents) : Len(SpecPairs(documents[i])) = 6
    /\ Contains(context, " screen: 15.6in\n")
    /\ ~Contains(context, " weight: 1.9kg\n")

\* the documents of the formatted list that carry review data
Reviewed == {i \in 1..Len(documents) : "reviews" \in DOMAIN documents[i]}

\* rating and review count of a document as the context shows them
RatingAndCount(reviews) ==
    "Rating: " \o FormatRating(reviews) \o "/5.0 (" \o FormatCount(reviews)
    \o " reviews)\n"

\* C14 as claimed: for every document with review data both format_context
\* functions show the rating, the review count and the review summary
C14_SummaryInEveryAssembler ==
    (ChatFormatted \/ ControlledFormatted) =>
        \A i \in Reviewed :
            /\ Contains(context, RatingAndCount(documents[i].reviews))
            /\ "summary" \in DOMAIN documents[i].reviews
                  => Contains(context, documents[i].reviews.summary)

\* C14: for every document with review data format_context of the
\* conversational chat shows the rating and the review count and no summary;
\* format_context of the controlled-response chat shows the rating, the
\* review count and the summary; a missing rating, count or summary is shown
\* as None
C14_SummaryOnlyInControlled ==
    /\ ChatFormatted =>
          /\ \A i \in Reviewed :
                Contains(context, "\n- " \o RatingAndCount(documents[i].reviews))
          /\ ~Contains(context, "Summary")
          /\ \A i \in Reviewed :
                "summary" \in DOMAIN documents[i].reviews
                   => ~Contains(context, documents[i].reviews.summary)
    /\ ControlledFormatted =>
          \A i \in Reviewed :
             /\ Contains(context,
                    "\n- Customer " \o RatingAndCount(documents[i].reviews))
             /\ Contains(context,
                    "\n- Review Summary: "
                    \o GetText(documents[i].reviews, "summary") \o "\n")

\* C14 witness: the controlled-response assembler formatted a document with
\* a full review record and one whose reviews have a rating only
C14_Witness ==
    /\ ControlledFormatted
    /\ Contains(context, "- Customer Rating: 4.5/5.0 (128 reviews)\n- Review Summary: Fast and quiet\n")
    /\ Contains(context, "- Customer Rating: 4.0/5.0 (None reviews)\n- Review Summary: None\n")

\* the positions of s at which sub occurs
Occurrences(s, sub) ==
    {i \in 1..(Len(s) - Len(sub) + 1) : SubSeq(s, i, i + Len(sub) - 1) = sub}

\* where the block numbered i starts in the context, 0 when there is none
BlockStart(i) == Find(context, "\nProduct " \o ToString(i) \o ":\n")

\* where the block numbered i ends in the context
BlockEnd(i) == IF i < Len(documents) THEN BlockStart(i + 1) ELSE Len(context)

\* the context has one block per document, numbered from 1 in list order, and
\* the block numbered i shows name and description of the i-th document
NumberedBlocks ==
    /\ Cardinality(Occurrences(context, "\nProduct ")) = Len(documents)
    /\ \A i \in 1..Len(documents) :
          /\ BlockStart(i) > 0
          /\ BlockStart(i) < BlockEnd(i)
          /\ \E p \in BlockStart(i)..BlockEnd(i) :
                p \in Occurrences(context,
                        ":\n- Name: " \o GetText(documents[i], "name") \o "\n")
          /\ \E p \in BlockStart(i)..BlockEnd(i) :
                p \in Occurrences(context,
                        "\n- Description: " \o GetText(documents[i], "description") \o "\n")

\* format_context of 02_context_chat.py has been called on documents
ChatFormattedOnceOrTwice ==
    program = "format" /\ pc \in {"chat_format", "chat_format_again"}

----------------------------------------------------------------------------
(* Claims about reciprocal rank fusion *)

\* the entry of the fusion for a document
FusedEntries == {fused[i] : i \in 1..Len(fused)}

InLexical(doc) == \E i \in 1..Len(lexical) : lexical[i] = doc
InSemantic(doc) == \E i \in 1..Len(semantic) : semantic[i] = doc

\* the document is the first of both rankings
FirstInBoth(doc) ==
    /\ lexical # <<>> /\ semantic # <<>>
    /\ lexical[1] = doc /\ semantic[1] = doc

\* C17: with a rank constant k > 0 the document ranked first in both
\* rankings has a strictly higher fused score than every document that is in
\* one ranking only, and a ranking that lacks a document adds nothing to its
\* score: the score of a document in one ranking at rank r is 1 / (k + r)
C17_TopOfBothBeatsSingles ==
    (program = "fusion" /\ pc = "fused") =>
        /\ rank_constant > 0
        /\ \A top, single \in FusedEntries :
              (FirstInBoth(top.doc) /\ ~(InLexical(single.doc) /\ InSemantic(single.doc)))
                 => top.score[1] * single.score[2] > single.score[1] * top.score[2]
        /\ \A e \in FusedEntries :
              /\ (InLexical(e.doc) /\ ~InSemantic(e.doc))
                    => \E r \in 1..Len(lexical) :
                          /\ lexical[r] = e.doc
                          /\ e.score[1] * (rank_constant + r) = e.score[2]
              /\ (InSemantic(e.doc) /\ ~InLexical(e.doc))
                    => \E r \in 1..Len(semantic) :
                          /\ semantic[r] = e.doc
                          /\ e.score[1] * (rank_constant + r) = e.score[2]

\* C17 witness: one document leads both rankings, another is second in the
\* text ranking only, a third second in the vector ranking only, and the
\* fusion puts the first one on top
C17_Witness ==
    /\ program = "fusion" /\ pc = "fused"
    /\ Len(lexical) = 2 /\ Len(semantic) = 2
    /\ lexical[1] = semantic[1]
    /\ lexical[2] # semantic[2]
    /\ Len(fused) = 3
    /\ fused[1].doc = lexical[1]
    /\ hits[1]._source = lexical[1]

----------------------------------------------------------------------------
(* Claims about the controlled responses *)

\* a turn of the controlled-response loop ended with an answer
ControlledAnswered == program = "controlled" /\ lastOutcome = "answered"

\* the word "best" in every mix of upper and lower case
BestInAnyCase ==
    {b \o e \o s \o t : b \in {"b", "B"}, e \in {"e", "E"},
                        s \in {"s", "S"}, t \in {"t", "T"}}

MentionsBest(text) == \E word \in BestInAnyCase : Contains(text, word)

\* C18: the validation report of an answer that has the word "best", in any
\* letter case, has no_superlatives = false, and the report of an answer
\* without a currency symbol has includes_price = false
C18_BestAndPriceReported ==
    ControlledAnswered =>
        /\ MentionsBest(answer) => ~followed_rules.no_superlatives
        /\ ~Contains(answer, "$") => ~followed_rules.includes_price

\* C18 witness: the answer says "Best" and names no price
C18_Witness ==
    /\ ControlledAnswered
    /\ Contains(answer, "Best") /\ ~Contains(answer, "best")
    /\ ~Contains(answer, "$")
    /\ followed_rules.no_superlatives = FALSE
    /\ followed_rules.includes_price = FALSE

\* some rule of the validation report is false
RuleBroken == \E rule \in DOMAIN followed_rules : ~followed_rules[rule]

\* C19: the response generate_controlled_response returns is the text of the
\* completion, character for character, and the loop shows it, whatever the
\* validation report says
C19_AnswerShownAsGenerated ==
    ControlledAnswered => (response = answer /\ shown = answer)

\* C19 witness: an answer that breaks a rule is shown
C19_Witness ==
    /\ ControlledAnswered
    /\ RuleBroken
    /\ answer # ""
    /\ shown = answer

----------------------------------------------------------------------------
(* Claims about the generation request *)

\* generate_response has sent its request for the history in messages
RequestSent == program = "history" /\ pc = "generate"

\* the messages of the request between the first and the last
RequestMiddle == SubSeq(request, 2, Len(request) - 1)

\* the positions of the history that hold a message of another role than
\* system
NonSystemPositions == {i \in 1..Len(messages) : messages[i].role # "system"}

\* C20: the request of generate_response starts with one system message,
\* which is its only one; then come the messages of the history whose role
\* is not system, all of them and in history order; the last message is a
\* user message that carries the context and the question
C20_RequestShape ==
    RequestSent =>
        /\ Len(request) = Cardinality(NonSystemPositions) + 2
        /\ request[1].role = "system"
        /\ \A i \in 2..Len(request) : request[i].role # "system"
        /\ \A i \in NonSystemPositions :
              \E a \in 1..Len(RequestMiddle) : RequestMiddle[a] = messages[i]
        /\ \A i, j \in NonSystemPositions :
              i < j => \E a, b \in 1..Len(RequestMiddle) :
                          /\ a < b
                          /\ RequestMiddle[a] = messages[i]
                          /\ RequestMiddle[b] = messages[j]
        /\ request[Len(request)].role = "user"
        /\ Contains(request[Len(request)].content, "\n" \o context \o "\n")
        /\ Contains(request[Len(request)].content, "\n" \o question \o "\n")

\* C20 witness: the history held a system message before a user and an
\* assistant message, and the request has the last two between its system
\* message and the question
C20_Witness ==
    /\ RequestSent
    /\ Len(messages) >= 3
    /\ messages[1].role = "system"
    /\ Len(request) = 4
    /\ request[2].role = "user" /\ request[3].role = "assistant"
    /\ request[2].seq < request[3].seq
    /\ documents # <<>>

----------------------------------------------------------------------------
(* Claims about the search scripts *)

\* what the search function of the running script returns to main for a
\* search that returned zero hits
ZeroHitsOutcome ==
    IF program = "basic_rag" THEN RetrieveContextReturn(<<>>)
    ELSE SemanticSearchReturn(<<>>)

\* the search of the script raised and its search function has returned
SearchFailureReturned ==
    /\ program \in {"basic_rag", "semantic_search"}
    /\ pc = "exited"
    /\ failedStage = "search"
    /\ lastOutcome # "interrupted"

\* C21: what the search function returns to its caller after the backend
\* search raised differs from what it returns for a search with zero hits
C21_FailureDiffersFromNoHits ==
    SearchFailureReturned => returned # ZeroHitsOutcome

----------------------------------------------------------------------------
(* Claims about clear() *)

\* C22: right after clear() the history is empty, whatever it held, and from
\* then on it equals, after every add_message call, the history of a
\* ConversationHistory created anew with the same max_messages that got the
\* same calls
C22_ClearedEqualsNew ==
    /\ [][(program = "twin" /\ pc = "none" /\ pc' = "cleared") => messages' = <<>>]_vars
    /\ []((program = "twin" /\ pc = "cleared") => messages = twin)

\* C22 witness: a history that held messages before the clear() has been
\* trimmed after it, with a system message kept, as the new one has
C22_Witness ==
    /\ program = "twin" /\ pc = "cleared"
    /\ Len(messages) >= 2
    /\ messages[1].seq > 2
    /\ messages[1].role = "system"
    /\ nextSeq - messages[1].seq > max_messages
    /\ messages = twin

----------------------------------------------------------------------------
(* Claims about the reformulation request *)

\* the reformulation call of the running turn has got its request
ReformulationSent == program = "chat" /\ pc = "reformulate"

\* C23: the request of the reformulation call holds, between its system
\* instruction and its final rewrite instruction, exactly the last two turns
\* of the history in their order: the last two messages, a turn being one
\* message, or the last two exchanges that precede the utterance, a turn
\* being a user message with its answer
C23_LastTwoTurns ==
    ReformulationSent =>
        /\ request[1] = RequestMessage("system", REFORMULATION_SYSTEM_PROMPT)
        /\ request[Len(request)].role = "user"
        /\ \/ RequestMiddle = PySliceFrom(messages, -2)
           \/ RequestMiddle = PySliceFrom(histAtTurnStart, -2)
           \/ RequestMiddle = PySliceFrom(histAtTurnStart, -4)

----------------------------------------------------------------------------
(* Claims about index_documents_with_embeddings *)

Indexing == program = "indexing"

\* the embedding call of the running batch returns in this step
EmbeddingSucceeds == Indexing /\ pc = "embed" /\ pc' = "batch"

\* the embedding call of the running batch raises in this step
EmbeddingFails == Indexing /\ pc = "embed" /\ pc' # "batch"

\* the texts of the running batch
RunningBatch == BatchTexts(Texts(documents), batch_start, batch_size)

\* C24: the embedding call of a batch is made at most MAX_RETRIES times; the
\* first call that returns ends the attempts for the batch and adds the
\* embeddings of the batch, which are added in no other step; an error is
\* raised exactly when attempt number MAX_RETRIES has failed, and then no
\* action is built and bulk is not called
C24_BoundedRetries ==
    /\ [](Indexing => attempts <= max_retries)
    /\ [][EmbeddingSucceeds =>
             /\ all_embeddings' = all_embeddings \o GenerateEmbeddingsBatch(RunningBatch)
             /\ RunningBatch # <<>>
             /\ batch_start' > batch_start]_vars
    /\ [][(Indexing /\ all_embeddings' # all_embeddings) => EmbeddingSucceeds]_vars
    /\ []((Indexing /\ max_retries > 0 /\ pc \in {"batch", "embed"}) =>
             Len(all_embeddings) = Min(batch_start, Len(documents)))
    /\ [][EmbeddingFails =>
             IF attempts = max_retries
             THEN pc' = "exited" /\ lastOutcome' = "error" /\ failedStage' = "embed"
             ELSE pc' = "embed" /\ attempts' = attempts + 1
                  /\ batch_start' = batch_start]_vars
    /\ []((Indexing /\ failedStage = "embed") =>
             pc = "exited" /\ actions = <<>> /\ returned = <<>>)

\* C24 witness: with the configured MAX_RETRIES a batch got its embeddings
\* at the second attempt and the batch after it failed MAX_RETRIES times
C24_Witness ==
    /\ Indexing /\ failedStage = "embed"
    /\ max_retries = MAX_RETRIES
    /\ attempts = MAX_RETRIES
    /\ Len(all_embeddings) = 1
    /\ Len(waits) = MAX_RETRIES
    /\ actions = <<>>

\* the waits made for the batch the function is at or was at last
CurrentWaits == SubSeq(waits, Len(waits) - attempt + 1, Len(waits))

\* C25: the first wait of a batch is RETRY_DELAY and every later one is
\* twice the wait before it
C25_WaitsDouble ==
    Indexing =>
        /\ CurrentWaits # <<>> => CurrentWaits[1] = retry_delay
        /\ \A k \in 2..Len(CurrentWaits) : CurrentWaits[k] = 2 * CurrentWaits[k - 1]

\* C25 as amended: the waits of a batch are RETRY_DELAY, 2 * RETRY_DELAY,
\* 3 * RETRY_DELAY and so on, at most MAX_RETRIES - 1 of them
C25_WaitsLinear ==
    Indexing =>
        /\ \A k \in 1..Len(CurrentWaits) : CurrentWaits[k] = k * retry_delay
        /\ Len(CurrentWaits) <= Max(max_retries - 1, 0)

\* C25 witness: three waits were made for one batch with a RETRY_DELAY of 2
C25_Witness ==
    /\ Indexing
    /\ retry_delay = 2
    /\ attempt = 3
    /\ CurrentWaits = <<2, 4, 6>>

\* the bulk call has been reached
BulkReached == Indexing /\ (pc = "bulk" \/ lastOutcome = "indexed")

\* C28: when the bulk call is reached there is one embedding for every
\* loaded document, and action number n carries document n with the
\* embedding of the text of document n
C28_OneEmbeddingPerDocument ==
    BulkReached =>
        /\ Len(all_embeddings) = Len(documents)
        /\ Len(actions) = Len(documents)
        /\ \A n \in 1..Len(actions) :
              /\ actions[n]._id = documents[n].id
              /\ actions[n]._source.embedding_vector
                     = Embedding(PrepareTextForEmbedding(documents[n]))
              /\ \A k \in DOMAIN documents[n] :
                    actions[n]._source[k] = documents[n][k]

----------------------------------------------------------------------------
(* Claims about the order of the history *)

\* C26: the messages get_messages returns are in the order in which
\* add_message appended them, whatever their roles and whether or not the
\* history has been trimmed
C26_AppendOrder ==
    program = "history" =>
        \A a, b \in DOMAIN messages : a < b => messages[a].seq < messages[b].seq

----------------------------------------------------------------------------
(* Claims about the generation request of a chat turn *)

\* the generation call of the running turn has got its request
GenerationSent == program = "chat" /\ pc = "generate"

\* the message add_message made of the utterance of the running turn
UtteranceMessage == Message("user", question, nextSeq - 1)

\* C27: in the generation request of a chat turn the utterance of the turn
\* is in the last message and the message the history holds for it is not
\* among the messages carried from the history
C27_UtteranceOnlyInLastMessage ==
    GenerationSent =>
        /\ Contains(request[Len(request)].content, question)
        /\ \A n \in DOMAIN RequestMiddle : RequestMiddle[n] # UtteranceMessage

----------------------------------------------------------------------------
(* Claims about the commands of the chat loop *)

\* C29: a line that is blank after strip() or that is quit, exit or q in any
\* letter case leaves the history as it was, and a line that is clear in any
\* letter case leaves it empty; in both cases no embedding, search or LLM
\* call is made before the next line is read or the loop is left
C29_CommandsMakeNoCall ==
    [][(program = "chat" /\ pc = "input") =>
          /\ (Strip(question') = "" \/ Lower(question') \in QuitWords) =>
                /\ messages' = messages
                /\ calls' = {}
                /\ pc' \in {"input", "exited"}
          /\ Lower(question') \in QuitWords => pc' = "exited"
          /\ Lower(question') = "clear" =>
                /\ messages' = <<>>
                /\ calls' = {}
                /\ pc' = "input"]_vars

\* C29 witness: Clear, in another letter case than the command is written,
\* has emptied a history that held messages, and no call was made
C29_Witness ==
    /\ program = "chat" /\ pc = "input"
    /\ question = "Clear"
    /\ lastOutcome = "cleared"
    /\ histAtTurnStart # <<>>
    /\ messages = <<>>
    /\ calls = {}

----------------------------------------------------------------------------
(* Claims about the superlatives of the validation report *)

WordCharacters == LowerLetters \o UpperLetters \o "0123456789"

IsWordCharacter(c) ==
    \E n \in 1..Len(WordCharacters) : SubSeq(WordCharacters, n, n) = c

\* word occurs in text with no letter or digit right before or after it
HasWord(text, word) ==
    \E p \in Occurrences(text, word) :
        /\ p = 1 \/ ~IsWordCharacter(SubSeq(text, p - 1, p - 1))
        /\ p + Len(word) > Len(text)
           \/ ~IsWordCharacter(SubSeq(text, p + Len(word), p + Len(word)))

\* C30: the validation report has no_superlatives = false only for an answer
\* in which best, amazing, incredible or perfect stands as a word of its
\* own, in any letter case; an answer that has such a term only inside a
\* longer word is reported with no_superlatives = true
C30_SuperlativeAsWordOnly ==
    ControlledAnswered =>
        (~followed_rules.no_superlatives
            => \E word \in Superlatives : HasWord(Lower(answer), word))

====
